---- MODULE Spec2Model ----
(***************************************************************************)
(* A model of the RAG pipeline of Personal-chatbot: the retrieval          *)
(* orchestrator (backend/app/core/retriever.py) with the collaborators it  *)
(* calls (embeddings.py, vector_store.py, llm_handler.py), and the text    *)
(* splitter (backend/app/utils/text_splitter.py).                          *)
(*                                                                         *)
(* Python values are modelled as follows.  A str is a sequence of          *)
(* one-character strings.  An Optional value is None (the empty tuple) or  *)
(* Some(v) (the one-element tuple holding v).  A dict is a record with the *)
(* keys the code gives it.  A float distance is an integer number of       *)
(* distance units.                                                         *)
(***************************************************************************)
EXTENDS Integers, Sequences, FiniteSets, TLC

----------------------------------------------------------------------------
(* Bounds of the model *)

\* the largest top_k a request or the configuration carries
MaxTopK == 2
\* the largest number of records the collection holds at start-up
MaxRecords == 2
\* embedding vectors are the integers 0..MaxVec
MaxVec == 2
\* the longest text handed to the splitter
MaxTextLen == 5
\* the largest chunk_size a splitter is constructed with
MaxChunk == 3
\* the longest batch of texts handed to generate_embeddings_batch
MaxBatch == 2
\* the longest stream of lines the stream consumer receives
MaxLines == 3
\* the most uuids add_documents draws in a behaviour
MaxIds == 3

----------------------------------------------------------------------------
(* Python values *)

None == << >>
Some(v) == << v >>
IsNone(o) == o = << >>
TheValue(o) == o[1]

\* the characters of the model's strings
Whitespace == {" ", "\n"}
Letters == {"a", "b"}
Chars == Letters \cup Whitespace

RECURSIVE LStrip(_)
LStrip(s) ==
    IF s = << >> THEN << >>
    ELSE IF s[1] \in Whitespace THEN LStrip(Tail(s)) ELSE s

RECURSIVE RStrip(_)
RStrip(s) ==
    IF s = << >> THEN << >>
    ELSE IF s[Len(s)] \in Whitespace THEN RStrip(SubSeq(s, 1, Len(s) - 1)) ELSE s

\* str.strip()
Strip(s) == RStrip(LStrip(s))

\* IsBlank without the strip: "not s" alone
IsBlank_EmptyOnly(s) == s = << >>

\* "not s or not s.strip()"
IsBlank(s) == s = << >> \/ Strip(s) = << >>

\* a slice index of Python: negative counts from the end, then clipped
SliceIndex(i, n) ==
    IF i < 0 THEN (IF i + n < 0 THEN 0 ELSE i + n)
    ELSE (IF i > n THEN n ELSE i)

\* s[i:j]
Slice(s, i, j) ==
    LET lo == SliceIndex(i, Len(s))
        hi == SliceIndex(j, Len(s))
    IN  IF hi <= lo THEN << >> ELSE SubSeq(s, lo + 1, hi)

Min(a, b) == IF a < b THEN a ELSE b
Abs(a) == IF a < 0 THEN 0 - a ELSE a

\* all sequences over S of length at most n
SeqsUpTo(S, n) == UNION { [1..k -> S] : k \in 0..n }

----------------------------------------------------------------------------
(* External collaborators' events.  Every call of an external capability  *)
(* and every wait of a request is appended to the request's log as        *)
(* [op, arg, raised]: arg is the attempt number (from 0) of a model call,  *)
(* the n_results of a collection query, the seconds of a sleep; raised     *)
(* tells whether the call raised an exception.                             *)

Event(op, arg, raised) == [op |-> op, arg |-> arg, raised |-> raised]

RECURSIVE Pow2(_)
Pow2(n) == IF n <= 0 THEN 1 ELSE 2 * Pow2(n - 1)

----------------------------------------------------------------------------
(* Embedding gateway: backend/app/core/embeddings.py *)

\* retry_count's default
RetryCount == 3

\* what one genai.embed_content call does: raises (None) or returns a vector
EmbedOutcomes == {None} \cup { Some(v) : v \in 0..MaxVec }

\* the attempts of generate_embedding from attempt on; outs[attempt + 1] is
\* what the external model does at that attempt
RECURSIVE EmbeddingAttempts(_, _, _)
EmbeddingAttempts(outs, attempt, retry_count) ==
    IF attempt >= retry_count THEN [ret |-> None, events |-> << >>]
    ELSE LET out == outs[attempt + 1]
             call == Event("embed_content_document", attempt, IsNone(out))
         IN  IF ~IsNone(out) THEN [ret |-> out, events |-> << call >>]
             ELSE IF attempt < retry_count - 1
                  THEN LET rest == EmbeddingAttempts(outs, attempt + 1, retry_count)
                       IN  [ret |-> rest.ret,
                            events |-> << call, Event("sleep", Pow2(attempt), FALSE) >>
                                       \o rest.events]
                  ELSE [ret |-> None, events |-> << call >>]

\* generate_embedding(text, retry_count)
generate_embedding(text, outs, retry_count) ==
    IF IsBlank(text) THEN [ret |-> None, events |-> << >>]
    ELSE EmbeddingAttempts(outs, 0, retry_count)

\* the items of generate_embeddings_batch from item idx on; outs[idx] is what
\* the external model does at the attempts for item idx
RECURSIVE BatchItems(_, _, _)
BatchItems(ts, outs, idx) ==
    IF idx > Len(ts) THEN [ret |-> << >>, events |-> << >>]
    ELSE LET embedding == generate_embedding(ts[idx], outs[idx], RetryCount)
             pace == IF idx < Len(ts)
                     THEN << Event("sleep_between_items", idx, FALSE) >>
                     ELSE << >>
             rest == BatchItems(ts, outs, idx + 1)
         IN  [ret |-> << embedding.ret >> \o rest.ret,
              events |-> embedding.events \o pace \o rest.events]

\* a batch that leaves the failed items out of the returned list
generate_embeddings_batch_DropsFailed(ts, outs) ==
    LET r == BatchItems(ts, outs, 1)
    IN  [ret |-> SelectSeq(r.ret, LAMBDA e : ~IsNone(e)), events |-> r.events]

\* generate_embeddings_batch(texts)
generate_embeddings_batch(ts, outs) == BatchItems(ts, outs, 1)

\* a query embedding without the guard against blank queries
generate_query_embedding_NoGuard(query, out) ==
    [ret |-> out,
     events |-> << Event("embed_content_query", 0, IsNone(out)) >>]

\* generate_query_embedding(query); out is what the external model does
generate_query_embedding(query, out) ==
    IF IsBlank(query) THEN [ret |-> None, events |-> << >>]
    ELSE [ret |-> out,
          events |-> << Event("embed_content_query", 0, IsNone(out)) >>]

----------------------------------------------------------------------------
(* Vector index facade: backend/app/core/vector_store.py *)

\* the length over which the preview of a source is cut
PreviewLen == 100

TextOfLen(n) ==
    [i \in 1..n |-> IF i % 3 = 0 THEN " " ELSE IF i % 3 = 1 THEN "a" ELSE "b"]

\* a stored record, as add_documents writes it
StoredRecord(id, text, source_file, chunk_index, vec) ==
    [id |-> id, document |-> text,
     metadata |-> [source_file |-> source_file, chunk_index |-> chunk_index,
                   chunk_size |-> Len(text)],
     embedding |-> vec]

\* the records a collection of the model is made of
Pool ==
    << StoredRecord(1, TextOfLen(3), "a.txt", 0, 0),
       StoredRecord(2, TextOfLen(PreviewLen), "a.txt", 1, 1 % (MaxVec + 1)),
       StoredRecord(3, TextOfLen(PreviewLen + 1), "b.txt", 0, 2 % (MaxVec + 1)),
       StoredRecord(4, TextOfLen(PreviewLen + 2), "b.txt", 1, 3 % (MaxVec + 1)) >>

\* the collections the persistent client can find at start-up
Collections ==
    { [i \in 1..Len(ids) |-> Pool[ids[i]]] :
        ids \in { s \in SeqsUpTo(1..Len(Pool), MaxRecords) :
                    \A i, j \in 1..Len(s) : i # j => s[i] # s[j] } }

\* the distance of a stored vector to a query vector
Distance(vec, q) == Abs(vec - q)

\* the position of the first record of recs nearest to q
NearestIndex(recs, q) ==
    CHOOSE i \in 1..Len(recs) :
        /\ \A j \in 1..Len(recs) :
              Distance(recs[i].embedding, q) <= Distance(recs[j].embedding, q)
        /\ \A j \in 1..(i - 1) :
              Distance(recs[j].embedding, q) > Distance(recs[i].embedding, q)

RemoveAt(s, i) == SubSeq(s, 1, i - 1) \o SubSeq(s, i + 1, Len(s))

\* the k records of recs nearest to q, nearest first
RECURSIVE Nearest(_, _, _)
Nearest(recs, q, k) ==
    IF k <= 0 \/ recs = << >> THEN << >>
    ELSE LET i == NearestIndex(recs, q)
         IN  << recs[i] >> \o Nearest(RemoveAt(recs, i), q, k - 1)

\* collection.query(query_embeddings=[q], n_results=n): the store raises
\* (Raised) when it fails and always when n_results is not positive
Raised == [raised |-> TRUE]
CollectionQuery(coll, q, n_results, fails) ==
    IF fails \/ n_results <= 0 THEN Raised
    ELSE LET hits == Nearest(coll, q, n_results)
         IN  [raised |-> FALSE,
              documents |-> << [i \in 1..Len(hits) |-> hits[i].document] >>,
              metadatas |-> << [i \in 1..Len(hits) |-> hits[i].metadata] >>,
              distances |-> << [i \in 1..Len(hits) |->
                                   Distance(hits[i].embedding, q)] >>]

\* a search that asks the store for every record whatever top_k is
search_AllRecords(coll, query_embedding, top_k, fails) ==
    LET results == CollectionQuery(coll, query_embedding,
                                   IF top_k <= 0 THEN top_k ELSE Len(coll) + 1,
                                   fails)
    IN  IF results.raised
        THEN [documents |-> << >>, metadatas |-> << >>, distances |-> << >>,
              count |-> 0]
        ELSE [documents |-> results.documents[1],
              metadatas |-> results.metadatas[1],
              distances |-> results.distances[1],
              count |-> Len(results.documents[1])]

\* VectorStore.search(query_embedding, top_k)
search(coll, query_embedding, top_k, fails) ==
    LET results == CollectionQuery(coll, query_embedding, top_k, fails)
    IN  IF results.raised
        THEN [documents |-> << >>, metadatas |-> << >>, distances |-> << >>,
              count |-> 0]
        ELSE [documents |-> IF results.documents # << >>
                            THEN results.documents[1] ELSE << >>,
              metadatas |-> IF results.metadatas # << >>
                            THEN results.metadatas[1] ELSE << >>,
              distances |-> IF results.distances # << >>
                            THEN results.distances[1] ELSE << >>,
              count |-> IF results.documents # << >>
                        THEN Len(results.documents[1]) ELSE 0]

----------------------------------------------------------------------------
(* Generation gateway: backend/app/core/llm_handler.py *)

\* what one model.generate_content call does: raises (None) or returns a
\* response whose text is the given string
LLMTexts == { << >>, << " " >>, << "a" >>, << " ", "a", "\n" >> }
LLMOutcomes == {None} \cup { Some(t) : t \in LLMTexts }

\* a model.generate_content call that returned a response with the given text
Responded(attempt, response_text) ==
    [op |-> "generate_content", arg |-> attempt, raised |-> FALSE,
     text |-> response_text]

\* the attempts of generate_response from attempt on
RECURSIVE ResponseAttempts(_, _, _)
ResponseAttempts(outs, attempt, retry_count) ==
    IF attempt >= retry_count THEN [ret |-> None, events |-> << >>]
    ELSE LET out == outs[attempt + 1]
             call == IF IsNone(out) THEN Event("generate_content", attempt, TRUE)
                     ELSE Responded(attempt, TheValue(out))
         IN  IF ~IsNone(out)
             THEN [ret |-> IF TheValue(out) # << >>
                           THEN Some(Strip(TheValue(out))) ELSE None,
                   events |-> << call >>]
             ELSE IF attempt < retry_count - 1
                  THEN LET rest == ResponseAttempts(outs, attempt + 1, retry_count)
                       IN  [ret |-> rest.ret,
                            events |-> << call, Event("sleep", Pow2(attempt), FALSE) >>
                                       \o rest.events]
                  ELSE [ret |-> None, events |-> << call >>]

\* the prompt of generate_rag_response: the fixed instructions, the numbered
\* context and the question
Instructions == << "a" >>
BuildPrompt(query, context_chunks) ==
    [instructions |-> Instructions,
     context_text |-> [i \in 1..Len(context_chunks) |->
                          [number |-> i, chunk |-> context_chunks[i]]],
     question |-> query]

PromptIsBlank(prompt) ==
    /\ IsBlank(prompt.instructions)
    /\ \A i \in 1..Len(prompt.context_text) : FALSE
    /\ IsBlank(prompt.question)

\* generate_response that never retries
generate_response_SingleAttempt(prompt, outs, retry_count) ==
    IF PromptIsBlank(prompt) THEN [ret |-> None, events |-> << >>]
    ELSE ResponseAttempts(outs, 0, 1)

\* generate_response(prompt, max_tokens, retry_count)
generate_response(prompt, outs, retry_count) ==
    IF PromptIsBlank(prompt) THEN [ret |-> None, events |-> << >>]
    ELSE ResponseAttempts(outs, 0, retry_count)

\* the fixed answer of generate_rag_response without context
Fallback == << "f" >>

\* generate_rag_response that calls the model whatever the context
generate_rag_response_NoShortCircuit(query, context_chunks, outs) ==
    generate_response(BuildPrompt(query, context_chunks), outs, RetryCount)

\* generate_rag_response(query, context_chunks)
generate_rag_response(query, context_chunks, outs) ==
    IF context_chunks = << >> THEN [ret |-> Some(Fallback), events |-> << >>]
    ELSE generate_response(BuildPrompt(query, context_chunks), outs, RetryCount)

----------------------------------------------------------------------------
(* Retrieval orchestrator: backend/app/core/retriever.py *)

VARIABLES
    collection,       \* VectorStore.collection: the stored records, in insertion order
    self_top_k,       \* Retriever.top_k, the configured default
    pc,               \* where the running call stands; "idle" between calls
    call,             \* the operation that is running or has just returned
    query,            \* retrieve_and_generate's argument query
    req_top_k,        \* retrieve_and_generate's argument top_k (Optional)
    top_k,            \* the local top_k after "top_k or self.top_k"
    text,             \* generate_embedding's argument text
    query_embedding,  \* the local query_embedding (Optional)
    search_results,   \* the local search_results
    sources,          \* the local sources
    result,           \* the value the call returned
    log,              \* the external calls and waits of the call, in order
    stages,           \* the stages the call went through, in order
    texts,            \* generate_embeddings_batch's argument texts
    rag_context,      \* generate_rag_response's argument context_chunks
    llm_prompt,       \* generate_response's argument prompt (Optional)
    status_code,      \* response.status_code of the frontend's POST /query/stream
    lines,            \* the lines response.iter_lines() gives, in order
    line_no,          \* the number of lines stream_tokens has taken
    yielded,          \* the tokens stream_tokens has yielded, in order
    fe_pc,            \* where the frontend's stream consumer stands
    sp_pc,            \* where the splitter stands
    chunk_size,       \* TextSplitter.chunk_size
    chunk_overlap,    \* TextSplitter.chunk_overlap
    sp_input,         \* split_text's argument text
    metadata,         \* split_text's argument metadata (Optional)
    sp_text,          \* the local text after _prepare_text
    start,            \* _create_chunks' local start
    chunks,           \* _create_chunks' local chunks
    windows,          \* the slices text[start:end] of the walk, before the trim
    chunk_dicts,      \* the value split_text returned
    next_id,          \* the number the next uuid4() of add_documents stands for
    stale,            \* VectorStore.collection names a collection that is deleted
    st_call,          \* the facade or upload call that returned last
    total_docs,       \* get_stats' local total_docs while it runs (Optional)
    upload_dir        \* the names of the files saved in the upload directory

retrieverVars ==
    << collection, self_top_k, pc, call, query, req_top_k, top_k, text,
       query_embedding, search_results, sources, result, log, stages >>

splitterVars ==
    << sp_pc, chunk_size, chunk_overlap, sp_input, metadata, sp_text, start,
       chunks, windows, chunk_dicts >>

\* the arguments the gateways' methods are called with
gatewayVars == << texts, rag_context, llm_prompt >>

\* the frontend's stream consumer
consumerVars == << status_code, lines, line_no, yielded, fe_pc >>

\* the vector store facade besides its collection, and the call in progress
storeVars == << next_id, stale, st_call, total_docs, upload_dir >>

vars == << retrieverVars, gatewayVars, splitterVars, consumerVars, storeVars >>

\* the queries and texts of the model: empty, blank, and two that are not
Queries == { << >>, << " ", "\n" >>, << "a" >>, << " ", "b", " " >> }

\* the top_k a request carries: none, or an integer
TopKArgs == {None} \cup { Some(k) : k \in (0 - 1)..MaxTopK }

NoResults == [documents |-> << >>, metadatas |-> << >>, distances |-> << >>,
              count |-> 0]

\* the fixed answer of a query without match
NoInformation == << "n" >>

\* the dictionaries retrieve_and_generate returns
EmptyQueryResult ==
    [success |-> FALSE, answer |-> None, error |-> Some("Empty query provided"),
     sources |-> << >>, chunks_used |-> 0]

\* the result of a failed embedding with the message of a failed generation
EmbeddingFailedResult_WrongMessage ==
    [success |-> FALSE, answer |-> None,
     error |-> Some("Failed to generate response"),
     sources |-> << >>, chunks_used |-> 0]

EmbeddingFailedResult ==
    [success |-> FALSE, answer |-> None,
     error |-> Some("Failed to generate query embedding"),
     sources |-> << >>, chunks_used |-> 0]

\* zero matches reported as a failure
NoMatchResult_AsFailure ==
    [success |-> FALSE, answer |-> None, error |-> Some("No documents found"),
     sources |-> << >>, chunks_used |-> 0]

NoMatchResult ==
    [success |-> TRUE, answer |-> Some(NoInformation), sources |-> << >>,
     chunks_used |-> 0]

\* a failed generation returned like the other failures, without sources
GenerationFailedResult_NoSources(srcs, context_chunks) ==
    [success |-> FALSE, answer |-> None,
     error |-> Some("Failed to generate response"),
     sources |-> << >>, chunks_used |-> 0]

GenerationFailedResult(srcs, context_chunks) ==
    [success |-> FALSE, answer |-> None,
     error |-> Some("Failed to generate response"),
     sources |-> srcs, chunks_used |-> Len(context_chunks)]

\* a result that counts the chunks asked for instead of the chunks used
SuccessResult_CountsAskedFor(answer, srcs, context_chunks) ==
    [success |-> TRUE, answer |-> answer, sources |-> srcs,
     chunks_used |-> top_k, error |-> None]

SuccessResult(answer, srcs, context_chunks) ==
    [success |-> TRUE, answer |-> answer, sources |-> srcs,
     chunks_used |-> Len(context_chunks), error |-> None]

\* dict.get(key), as query_chatbot reads the optional keys
Get(dict, key) == IF key \in DOMAIN dict THEN dict[key] ELSE None

\* "top_k = top_k or self.top_k"
ResolveTopK(arg, default) ==
    IF ~IsNone(arg) /\ TheValue(arg) # 0 THEN TheValue(arg) ELSE default

\* Preview with ">=" for ">"
Preview_CutsAtLength(chunk) ==
    IF Len(chunk) >= PreviewLen
    THEN Slice(chunk, 0, PreviewLen) \o << ".", ".", "." >>
    ELSE chunk

\* "chunk[:100] + '...' if len(chunk) > 100 else chunk"
Preview(chunk) ==
    IF Len(chunk) > PreviewLen
    THEN Slice(chunk, 0, PreviewLen) \o << ".", ".", "." >>
    ELSE chunk

\* "1 - distance"
Similarity(distance) == 1 - distance

\* the loop over zip(chunks, metadatas, distances) that builds sources
BuildSources(documents, metadatas, distances) ==
    [i \in 1..Min(Len(documents), Min(Len(metadatas), Len(distances))) |->
        [chunk_text |-> Preview(documents[i]),
         source_file |-> metadatas[i].source_file,
         chunk_index |-> metadatas[i].chunk_index,
         similarity_score |-> Similarity(distances[i])]]

RetrieverInit ==
    /\ collection \in Collections
    /\ self_top_k \in 1..MaxTopK
    /\ pc = "idle"
    /\ call = "none"
    /\ query = << >>
    /\ req_top_k = None
    /\ top_k = 0
    /\ text = << >>
    /\ query_embedding = None
    /\ search_results = NoResults
    /\ sources = << >>
    /\ result = None
    /\ log = << >>
    /\ stages = << >>
    /\ texts = << >>
    /\ rag_context = << >>
    /\ llm_prompt = None

\* retrieve_and_generate is called: the entry guard and the top_k resolution
Request(q, k) ==
    /\ pc = "idle"
    /\ call' = "retrieve_and_generate"
    /\ query' = q
    /\ req_top_k' = k
    /\ text' = << >>
    /\ query_embedding' = None
    /\ search_results' = NoResults
    /\ sources' = << >>
    /\ log' = << >>
    /\ IF IsBlank(q)
       THEN /\ result' = EmptyQueryResult
            /\ top_k' = 0
            /\ stages' = << "ERROR" >>
            /\ pc' = "returned"
       ELSE /\ result' = None
            /\ top_k' = ResolveTopK(k, self_top_k)
            /\ stages' = << "EMBEDDING_QUERY" >>
            /\ pc' = "EMBEDDING_QUERY"
    /\ UNCHANGED << collection, self_top_k >>
    /\ UNCHANGED << gatewayVars, splitterVars, consumerVars, storeVars >>

\* step 1: the query embedding
EmbedQuery(out) ==
    /\ pc = "EMBEDDING_QUERY"
    /\ LET r == generate_query_embedding(query, out)
       IN  /\ log' = log \o r.events
           /\ query_embedding' = r.ret
           /\ IF IsNone(r.ret)
              THEN /\ result' = EmbeddingFailedResult
                   /\ stages' = Append(stages, "ERROR")
                   /\ pc' = "returned"
              ELSE /\ result' = result
                   /\ stages' = Append(stages, "SEARCHING")
                   /\ pc' = "SEARCHING"
    /\ UNCHANGED << collection, self_top_k, call, query, req_top_k, top_k, text,
                    search_results, sources >>
    /\ UNCHANGED << gatewayVars, splitterVars, consumerVars, storeVars >>

\* Search with the store's failure reported as an error of the request
Search_ReportsStoreFailure(fails) ==
    /\ pc = "SEARCHING"
    /\ LET r == search(collection, TheValue(query_embedding), top_k, fails)
           raised == fails \/ top_k <= 0
       IN  /\ log' = Append(log, Event("query", top_k, raised))
           /\ search_results' = r
           /\ IF raised
              THEN /\ result' = [EmbeddingFailedResult EXCEPT
                                    !.error = Some("Search failed")]
                   /\ stages' = Append(stages, "ERROR")
                   /\ pc' = "returned"
              ELSE IF r.count = 0
              THEN /\ result' = NoMatchResult
                   /\ stages' = Append(stages, "DONE")
                   /\ pc' = "returned"
              ELSE /\ result' = result
                   /\ stages' = Append(stages, "ASSEMBLING_CONTEXT")
                   /\ pc' = "ASSEMBLING_CONTEXT"
    /\ UNCHANGED << collection, self_top_k, call, query, req_top_k, top_k, text,
                    query_embedding, sources >>
    /\ UNCHANGED << gatewayVars, splitterVars, consumerVars, storeVars >>

\* step 2: the search of the vector store
Search(fails) ==
    /\ pc = "SEARCHING"
    /\ LET r == search(collection, TheValue(query_embedding), top_k, fails)
       IN  /\ log' = Append(log, Event("query", top_k, fails \/ top_k <= 0))
           /\ search_results' = r
           /\ IF r.count = 0
              THEN /\ result' = NoMatchResult
                   /\ stages' = Append(stages, "DONE")
                   /\ pc' = "returned"
              ELSE /\ result' = result
                   /\ stages' = Append(stages, "ASSEMBLING_CONTEXT")
                   /\ pc' = "ASSEMBLING_CONTEXT"
    /\ UNCHANGED << collection, self_top_k, call, query, req_top_k, top_k, text,
                    query_embedding, sources >>
    /\ UNCHANGED << gatewayVars, splitterVars, consumerVars, storeVars >>

\* step 3: the sources
Assemble ==
    /\ pc = "ASSEMBLING_CONTEXT"
    /\ sources' = BuildSources(search_results.documents, search_results.metadatas,
                               search_results.distances)
    /\ stages' = Append(stages, "GENERATING")
    /\ pc' = "GENERATING"
    /\ UNCHANGED << collection, self_top_k, call, query, req_top_k, top_k, text,
                    query_embedding, search_results, result, log >>
    /\ UNCHANGED << gatewayVars, splitterVars, consumerVars, storeVars >>

\* step 4: the answer
Generate(outs) ==
    /\ pc = "GENERATING"
    /\ LET context_chunks == search_results.documents
           r == generate_rag_response(query, context_chunks, outs)
           answer == r.ret
       IN  /\ log' = log \o r.events
           /\ IF IsNone(answer) \/ TheValue(answer) = << >>
              THEN /\ result' = GenerationFailedResult(sources, context_chunks)
                   /\ stages' = Append(stages, "ERROR")
              ELSE /\ result' = SuccessResult(answer, sources, context_chunks)
                   /\ stages' = Append(stages, "DONE")
    /\ pc' = "returned"
    /\ rag_context' = search_results.documents
    /\ llm_prompt' = Some(BuildPrompt(query, search_results.documents))
    /\ UNCHANGED << collection, self_top_k, call, query, req_top_k, top_k, text,
                    query_embedding, search_results, sources >>
    /\ UNCHANGED << texts, splitterVars, consumerVars, storeVars >>

\* generate_embedding(text) is called, as the upload flow calls it per chunk
EmbedDocument(t, outs) ==
    /\ pc = "idle"
    /\ call' = "generate_embedding"
    /\ text' = t
    /\ LET r == generate_embedding(t, outs, RetryCount)
       IN  /\ result' = r.ret
           /\ log' = r.events
    /\ query' = << >>
    /\ req_top_k' = None
    /\ top_k' = 0
    /\ query_embedding' = None
    /\ search_results' = NoResults
    /\ sources' = << >>
    /\ stages' = << >>
    /\ pc' = "returned"
    /\ UNCHANGED << collection, self_top_k >>
    /\ UNCHANGED << gatewayVars, splitterVars, consumerVars, storeVars >>

\* a gateway method is called directly and returns ret after the external
\* events given; the orchestrator's locals are none of its business
DirectCall(name, ret, events) ==
    /\ pc = "idle"
    /\ call' = name
    /\ result' = ret
    /\ log' = events
    /\ pc' = "returned"
    /\ UNCHANGED << collection, self_top_k, req_top_k, top_k, query_embedding,
                    search_results, sources, stages >>
    /\ UNCHANGED << splitterVars, consumerVars, storeVars >>

\* the vector the external embedding model gives for a text
EmbeddingOf(t) == Len(t) % (MaxVec + 1)

\* what the external model does at the attempts for a text when the first
\* failures attempts raise
OutcomesAfter(failures, t) ==
    [k \in 1..RetryCount |-> IF k <= failures THEN None ELSE Some(EmbeddingOf(t))]

\* the batches of texts, and for a batch the failures of its items
Batches == SeqsUpTo(Queries, MaxBatch)
BatchFailures(ts) == [1..Len(ts) -> 0..RetryCount]

\* generate_embeddings_batch(texts) is called, as the upload flow calls it
EmbedBatch(ts, failures) ==
    /\ LET outs == [i \in 1..Len(ts) |-> OutcomesAfter(failures[i], ts[i])]
           r == generate_embeddings_batch(ts, outs)
       IN  DirectCall("generate_embeddings_batch", r.ret, r.events)
    /\ texts' = ts
    /\ UNCHANGED << query, text, rag_context, llm_prompt >>

\* generate_query_embedding(query) is called
QueryEmbedding(q, out) ==
    /\ LET r == generate_query_embedding(q, out)
       IN  DirectCall("generate_query_embedding", r.ret, r.events)
    /\ query' = q
    /\ UNCHANGED << text, texts, rag_context, llm_prompt >>

\* the prompts handed to generate_response: a blank one and one built from a
\* question and a chunk
BlankPrompt == [instructions |-> << >>, context_text |-> << >>,
                question |-> << " " >>]
Prompts == { BlankPrompt, BuildPrompt(<< "a" >>, << << "b" >> >>) }

\* generate_response(prompt) is called
GenerateResponse(prompt, outs) ==
    /\ LET r == generate_response(prompt, outs, RetryCount)
       IN  DirectCall("generate_response", r.ret, r.events)
    /\ llm_prompt' = Some(prompt)
    /\ UNCHANGED << query, text, texts, rag_context >>

\* the context sequences handed to generate_rag_response
Contexts == SeqsUpTo({ << "a" >>, << "b", " " >> }, MaxRecords)

\* generate_rag_response(query, context_chunks) is called; the prompt is built
\* only when there is context
GenerateRag(q, context_chunks, outs) ==
    /\ LET r == generate_rag_response(q, context_chunks, outs)
       IN  DirectCall("generate_rag_response", r.ret, r.events)
    /\ query' = q
    /\ rag_context' = context_chunks
    /\ llm_prompt' = IF context_chunks = << >> THEN None
                     ELSE Some(BuildPrompt(q, context_chunks))
    /\ UNCHANGED << text, texts >>

\* the attributes of class Retriever
RetrieverMethods == {"__init__", "retrieve_and_generate", "retrieve_only"}

\* POST /query/stream: query_chatbot_stream looks up
\* retriever.retrieve_and_generate_stream, which class Retriever does not
\* define: the lookup raises AttributeError before a StreamingResponse
\* exists, and the request ends with status 500 and no event
StreamRequest(q, k) ==
    /\ pc = "idle"
    /\ "retrieve_and_generate_stream" \notin RetrieverMethods
    /\ call' = "query_chatbot_stream"
    /\ query' = q
    /\ req_top_k' = k
    /\ result' = [status |-> 500, events |-> << >>]
    /\ pc' = "returned"
    /\ UNCHANGED << collection, self_top_k, top_k, text, query_embedding,
                    search_results, sources, log, stages >>
    /\ UNCHANGED << gatewayVars, splitterVars, consumerVars, storeVars >>

\* the caller has taken the returned value; the call's locals are gone
Return ==
    /\ pc = "returned"
    /\ pc' = "idle"
    /\ call' = "none"
    /\ query' = << >>
    /\ req_top_k' = None
    /\ top_k' = 0
    /\ text' = << >>
    /\ query_embedding' = None
    /\ search_results' = NoResults
    /\ sources' = << >>
    /\ result' = None
    /\ log' = << >>
    /\ stages' = << >>
    /\ texts' = << >>
    /\ rag_context' = << >>
    /\ llm_prompt' = None
    /\ UNCHANGED << collection, self_top_k >>
    /\ UNCHANGED << splitterVars, consumerVars, storeVars >>

----------------------------------------------------------------------------
(* Text splitter: backend/app/utils/text_splitter.py *)

\* CollapseSpaces that leaves the runs of spaces as they are
CollapseSpaces_Identity(s) == s

\* re.sub(r' +', ' ', text): every maximal run of spaces becomes one space.
\* Computed by halves: a run that the cut divides has left one space on
\* either side of it, of which one is kept.
RECURSIVE CollapseSpaces(_)
CollapseSpaces(s) ==
    IF Len(s) < 2 THEN s
    ELSE LET mid == Len(s) \div 2
             left == CollapseSpaces(SubSeq(s, 1, mid))
             right == CollapseSpaces(SubSeq(s, mid + 1, Len(s)))
         IN  IF left[Len(left)] = " " /\ right[1] = " "
             THEN left \o Tail(right) ELSE left \o right

\* the number of newlines s begins with and ends with, counted up to two
LeadingNewlines(s) ==
    IF Len(s) >= 1 /\ s[1] = "\n"
    THEN (IF Len(s) >= 2 /\ s[2] = "\n" THEN 2 ELSE 1) ELSE 0
TrailingNewlines(s) ==
    IF Len(s) >= 1 /\ s[Len(s)] = "\n"
    THEN (IF Len(s) >= 2 /\ s[Len(s) - 1] = "\n" THEN 2 ELSE 1) ELSE 0

\* re.sub(r'\n{3,}', '\n\n', text): every maximal run of three or more
\* newlines becomes two newlines. Computed by halves: the halves hold runs of
\* at most two, and of a run that the cut divides two newlines are kept.
RECURSIVE CollapseNewlines(_)
CollapseNewlines(s) ==
    IF Len(s) < 3 THEN s
    ELSE LET mid == Len(s) \div 2
             left == CollapseNewlines(SubSeq(s, 1, mid))
             right == CollapseNewlines(SubSeq(s, mid + 1, Len(s)))
             run == TrailingNewlines(left) + LeadingNewlines(right)
         IN  IF run > 2
             THEN left \o SubSeq(right, run - 1, Len(right)) ELSE left \o right

\* _prepare_text(text)
_prepare_text(s) == Strip(CollapseNewlines(CollapseSpaces(s)))

\* "end = start + self.chunk_size", clipped to the text length
WindowEnd(st, size, text_length) ==
    IF st + size > text_length THEN text_length ELSE st + size

\* AdvanceStart without the overlap: the next window starts at end
AdvanceStart_NoOverlap(end, overlap) == end

\* "start = end - self.chunk_overlap"
AdvanceStart(end, overlap) == end - overlap

\* EnsureProgress that always snaps start to end
EnsureProgress_AlwaysSnaps(st, end, size) == end

\* "if start <= (end - self.chunk_size): start = end"
EnsureProgress(st, end, size) == IF st <= end - size THEN end ELSE st

\* dict.update: the keys of m are written over d
Update(d, m) ==
    [k \in DOMAIN d \cup DOMAIN m |-> IF k \in DOMAIN m THEN m[k] ELSE d[k]]

\* chunk_index counted from one instead of zero
WithMetadata_OneBased(cs, source_file, md) ==
    [i \in 1..Len(cs) |->
        LET chunk_dict == [text |-> cs[i], chunk_index |-> i,
                           source_file |-> source_file,
                           chunk_size |-> Len(cs[i])]
        IN  IF ~IsNone(md) THEN Update(chunk_dict, TheValue(md)) ELSE chunk_dict]

\* the chunk dictionaries split_text builds (created_at, a clock reading, is
\* left out)
WithMetadata(cs, source_file, md) ==
    [i \in 1..Len(cs) |->
        LET chunk_dict == [text |-> cs[i], chunk_index |-> i - 1,
                           source_file |-> source_file,
                           chunk_size |-> Len(cs[i])]
        IN  IF ~IsNone(md) THEN Update(chunk_dict, TheValue(md)) ELSE chunk_dict]

\* the chunks _create_chunks' loop appends from start st on
RECURSIVE WalkFrom(_, _, _, _)
WalkFrom(t, st, size, overlap) ==
    IF st >= Len(t) THEN << >>
    ELSE LET end == WindowEnd(st, size, Len(t))
             chunk == Strip(Slice(t, st, end))
             here == IF chunk # << >> THEN << chunk >> ELSE << >>
         IN  IF end >= Len(t) THEN here
             ELSE here \o WalkFrom(t, EnsureProgress(AdvanceStart(end, overlap),
                                                     end, size),
                                   size, overlap)

\* _create_chunks(text) of a splitter of the given size and overlap
_create_chunks(t, size, overlap) ==
    IF Len(t) <= size THEN << t >> ELSE WalkFrom(t, 0, size, overlap)

\* split_text(text, source_file, metadata) as the value it returns
split_text(t, source_file, md, size, overlap) ==
    IF IsBlank(t) THEN << >>
    ELSE WithMetadata(_create_chunks(_prepare_text(t), size, overlap),
                      source_file, md)

\* the default configuration of the splitter
CHUNK_SIZE == 1000
CHUNK_OVERLAP == 200

\* the texts handed to the splitter: the short texts of letters and spaces,
\* the short texts of one letter and newlines, and one long text of identical
\* non-whitespace characters that the default configuration splits into
\* three windows
Texts ==
    SeqsUpTo(Letters \cup {" "}, MaxTextLen) \cup SeqsUpTo({"a", "\n"}, MaxTextLen)
LongText == [i \in 1..(2 * CHUNK_SIZE + 500) |-> "a"]

\* the metadata handed to the splitter: none, an additional key, and a key
\* the chunk dictionary has already
Metadatas == {None, Some([category |-> "x"]), Some([chunk_index |-> 7])}

SplitterInit ==
    /\ sp_pc = "new"
    /\ chunk_size = 0
    /\ chunk_overlap = 0
    /\ sp_input = << >>
    /\ metadata = None
    /\ sp_text = << >>
    /\ start = 0
    /\ chunks = << >>
    /\ windows = << >>
    /\ chunk_dicts = << >>

\* a constructor without the check of the overlap
Construct_NoCheck(size, overlap) ==
    /\ sp_pc = "new"
    /\ chunk_size' = size
    /\ chunk_overlap' = overlap
    /\ sp_pc' = "ready"
    /\ UNCHANGED << sp_input, metadata, sp_text, start, chunks, windows,
                    chunk_dicts >>
    /\ UNCHANGED << retrieverVars, gatewayVars, consumerVars, storeVars >>

\* TextSplitter(chunk_size, chunk_overlap): the attributes are set, then the
\* check raises ValueError and no splitter comes to exist
Construct(size, overlap) ==
    /\ sp_pc = "new"
    /\ chunk_size' = size
    /\ chunk_overlap' = overlap
    /\ sp_pc' = IF overlap >= size THEN "ValueError" ELSE "ready"
    /\ UNCHANGED << sp_input, metadata, sp_text, start, chunks, windows,
                    chunk_dicts >>
    /\ UNCHANGED << retrieverVars, gatewayVars, consumerVars, storeVars >>

\* split_text(text) is called: the entry guard, _prepare_text and the start
\* of _create_chunks
SplitText(t, md) ==
    /\ sp_pc = "ready"
    /\ sp_input' = t
    /\ metadata' = md
    /\ start' = 0
    /\ windows' = << >>
    /\ chunk_dicts' = << >>
    /\ IF IsBlank(t)
       THEN /\ sp_text' = << >>
            /\ chunks' = << >>
            /\ sp_pc' = "done"
       ELSE LET prepared == _prepare_text(t)
            IN  /\ sp_text' = prepared
                /\ IF Len(prepared) <= chunk_size
                   THEN /\ chunks' = << prepared >>
                        /\ sp_pc' = "wrap"
                   ELSE /\ chunks' = << >>
                        /\ sp_pc' = "walk"
    /\ UNCHANGED << chunk_size, chunk_overlap >>
    /\ UNCHANGED << retrieverVars, gatewayVars, consumerVars, storeVars >>

\* one turn of _create_chunks' while loop
Window ==
    /\ sp_pc = "walk"
    /\ IF start < Len(sp_text)
       THEN LET end == WindowEnd(start, chunk_size, Len(sp_text))
                window == Slice(sp_text, start, end)
                chunk == Strip(window)
            IN  /\ windows' = Append(windows, window)
                /\ chunks' = IF chunk # << >> THEN Append(chunks, chunk) ELSE chunks
                /\ IF end >= Len(sp_text)
                   THEN /\ start' = AdvanceStart(end, chunk_overlap)
                        /\ sp_pc' = "wrap"
                   ELSE /\ start' = EnsureProgress(AdvanceStart(end, chunk_overlap),
                                                   end, chunk_size)
                        /\ sp_pc' = "walk"
       ELSE /\ sp_pc' = "wrap"
            /\ UNCHANGED << start, chunks, windows >>
    /\ UNCHANGED << chunk_size, chunk_overlap, sp_input, metadata, sp_text,
                    chunk_dicts >>
    /\ UNCHANGED << retrieverVars, gatewayVars, consumerVars, storeVars >>

\* split_text attaches the metadata and returns
Wrap ==
    /\ sp_pc = "wrap"
    /\ chunk_dicts' = WithMetadata(chunks, "unknown", metadata)
    /\ sp_pc' = "done"
    /\ UNCHANGED << chunk_size, chunk_overlap, sp_input, metadata, sp_text, start,
                    chunks, windows >>
    /\ UNCHANGED << retrieverVars, gatewayVars, consumerVars, storeVars >>

\* the caller has taken the returned list; the call's locals are gone
SplitReturn ==
    /\ sp_pc = "done"
    /\ sp_pc' = "ready"
    /\ sp_input' = << >>
    /\ metadata' = None
    /\ sp_text' = << >>
    /\ start' = 0
    /\ chunks' = << >>
    /\ windows' = << >>
    /\ chunk_dicts' = << >>
    /\ UNCHANGED << chunk_size, chunk_overlap >>
    /\ UNCHANGED << retrieverVars, gatewayVars, consumerVars, storeVars >>

----------------------------------------------------------------------------
(* Frontend stream consumer: Frontend/chat_app.py *)

\* the strings the consumer looks for
DataPrefix == << "d", "a", "t", "a", ":", " " >>
DoneMarker == << "[", "D", "O", "N", "E", "]" >>
SourcesKey == << "\"", "s", "o", "u", "r", "c", "e", "s", "\"" >>

\* the index at which "line[6:]" cuts
PrefixLen == 6

\* s.startswith(prefix) and "sub in s"
StartsWith(s, prefix) ==
    Len(s) >= Len(prefix) /\ SubSeq(s, 1, Len(prefix)) = prefix
Contains(s, sub) ==
    \E i \in 1..(Len(s) - Len(sub) + 1) : SubSeq(s, i, i + Len(sub) - 1) = sub

\* "token.startswith("{") and '"sources"' in token"
LooksLikeMetadata(token) ==
    StartsWith(token, << "{" >>) /\ Contains(token, SourcesKey)

\* the lines of the model: an empty line, a line without the data prefix, and
\* data lines whose token is a word, the end marker, {"sources":1}, a token
\* that only starts with a brace, and a token that only contains "sources"
Envelope == << "{" >> \o SourcesKey \o << ":", "1", "}" >>
Tokens == { << "h", "i" >>, DoneMarker, Envelope, << "{", "a" >>, SourcesKey }
StreamLines ==
    { << >>, << "h", "i" >> } \cup { DataPrefix \o token : token \in Tokens }
Streams == SeqsUpTo(StreamLines, MaxLines)

\* the status codes of the backend's answer
StatusCodes == {200, 500}

ConsumerInit ==
    /\ status_code = 0
    /\ lines = << >>
    /\ line_no = 0
    /\ yielded = << >>
    /\ fe_pc = "idle"

\* requests.post(.../query/stream, stream=True) has answered
Post(status, stream) ==
    /\ fe_pc = "idle"
    /\ status_code' = status
    /\ lines' = stream
    /\ line_no' = 0
    /\ yielded' = << >>
    /\ fe_pc' = IF status = 200 THEN "streaming" ELSE "error"
    /\ UNCHANGED << retrieverVars, gatewayVars, splitterVars, storeVars >>

\* one turn of the for loop of stream_tokens, st.write_stream taking what it
\* yields
StreamTokens ==
    /\ fe_pc = "streaming"
    /\ IF line_no >= Len(lines)
       THEN /\ fe_pc' = "done"
            /\ UNCHANGED << line_no, yielded >>
       ELSE LET line == lines[line_no + 1]
                token == Slice(line, PrefixLen, Len(line))
            IN  /\ line_no' = line_no + 1
                /\ IF line # << >> /\ StartsWith(line, DataPrefix)
                   THEN IF token = DoneMarker
                        THEN fe_pc' = "done" /\ UNCHANGED yielded
                        ELSE IF LooksLikeMetadata(token)
                        THEN UNCHANGED << fe_pc, yielded >>
                        ELSE /\ yielded' = Append(yielded, token)
                             /\ UNCHANGED fe_pc
                   ELSE UNCHANGED << fe_pc, yielded >>
    /\ UNCHANGED << status_code, lines >>
    /\ UNCHANGED << retrieverVars, gatewayVars, splitterVars, storeVars >>

\* the script has run to its end; the next chat input runs it again
Rerun ==
    /\ fe_pc \in {"done", "error"}
    /\ fe_pc' = "idle"
    /\ status_code' = 0
    /\ lines' = << >>
    /\ line_no' = 0
    /\ yielded' = << >>
    /\ UNCHANGED << retrieverVars, gatewayVars, splitterVars, storeVars >>

----------------------------------------------------------------------------
(* Vector store facade, its writes: backend/app/core/vector_store.py *)

\* the name of the collection
COLLECTION_NAME == "personal_knowledge"

\* the source names of the model, in the order sorted() gives them
SourceFiles == << "A.txt", "a.txt", "unknown" >>

\* sorted(list(s)) for a set s of source names
SortedSources(s) == SelectSeq(SourceFiles, LAMBDA f : f \in s)

\* chunk.get(key, default)
GetOr(dict, key, default) == IF key \in DOMAIN dict THEN dict[key] ELSE default

\* a record whose id is the index of its chunk instead of a new uuid
RecordOf_IndexAsId(id, chunk, emb) ==
    [id |-> GetOr(chunk, "chunk_index", 0) + 1, document |-> chunk.text,
     metadata |-> [source_file |-> GetOr(chunk, "source_file", "unknown"),
                   chunk_index |-> GetOr(chunk, "chunk_index", 0),
                   chunk_size |-> GetOr(chunk, "chunk_size", 0)],
     embedding |-> emb]

\* the record add_documents builds of a chunk, a new id and the chunk's
\* embedding (created_at, a clock reading, is left out)
RecordOf(id, chunk, emb) ==
    [id |-> id, document |-> chunk.text,
     metadata |-> [source_file |-> GetOr(chunk, "source_file", "unknown"),
                   chunk_index |-> GetOr(chunk, "chunk_index", 0),
                   chunk_size |-> GetOr(chunk, "chunk_size", 0)],
     embedding |-> emb]

\* "documents.append(chunk['text'])" raises KeyError
LacksText(cs) == \E i \in DOMAIN cs : "text" \notin DOMAIN cs[i]

\* collection.add raises: the store fails, the collection of the handle is
\* deleted, or an embedding is not a vector
AddRaises(embs, fails, is_stale) ==
    fails \/ is_stale \/ \E i \in DOMAIN embs : IsNone(embs[i])

\* add_documents without the check of the lengths: the chunks that have an
\* embedding at their position are stored
add_documents_PairsWhatItCan(coll, cs, embs, first_id, fails, is_stale) ==
    LET n == Min(Len(cs), Len(embs))
    IN  IF n = 0 \/ LacksText(cs) \/ AddRaises(SubSeq(embs, 1, n), fails, is_stale)
        THEN [ret |-> FALSE, coll |-> coll]
        ELSE [ret |-> TRUE,
              coll |-> coll \o [i \in 1..n |->
                          RecordOf(first_id + i - 1, cs[i], TheValue(embs[i]))]]

\* VectorStore.add_documents(chunks, embeddings): the value it returns and
\* the collection it leaves; first_id stands for the first uuid4() drawn
add_documents(coll, cs, embs, first_id, fails, is_stale) ==
    IF cs = << >> \/ embs = << >> THEN [ret |-> FALSE, coll |-> coll]
    ELSE IF Len(cs) # Len(embs) THEN [ret |-> FALSE, coll |-> coll]
    ELSE IF LacksText(cs) \/ AddRaises(embs, fails, is_stale)
    THEN [ret |-> FALSE, coll |-> coll]
    ELSE [ret |-> TRUE,
          coll |-> coll \o [i \in 1..Len(cs) |->
                      RecordOf(first_id + i - 1, cs[i], TheValue(embs[i]))]]

\* the records of coll whose metadata names the source s
OfSource(coll, s) == SelectSeq(coll, LAMBDA r : r.metadata.source_file = s)
NotOfSource(coll, s) == SelectSeq(coll, LAMBDA r : r.metadata.source_file # s)

\* delete_by_source that compares the source names without their case
delete_by_source_IgnoresCase(coll, s, failing, is_stale) ==
    LET lower(f) == IF f = "A.txt" THEN "a.txt" ELSE f
        same(r) == lower(r.metadata.source_file) = lower(s)
        other(r) == ~same(r)
    IN  IF failing = 1 \/ is_stale THEN [ret |-> FALSE, coll |-> coll]
        ELSE IF SelectSeq(coll, same) = << >>
        THEN [ret |-> FALSE, coll |-> coll]
        ELSE IF failing = 2 THEN [ret |-> FALSE, coll |-> coll]
        ELSE [ret |-> TRUE, coll |-> SelectSeq(coll, other)]

\* VectorStore.delete_by_source(source_file); failing names the store call
\* that raises: 1 is collection.get, 2 is collection.delete, 0 is neither
delete_by_source(coll, s, failing, is_stale) ==
    IF failing = 1 \/ is_stale THEN [ret |-> FALSE, coll |-> coll]
    ELSE IF OfSource(coll, s) = << >> THEN [ret |-> FALSE, coll |-> coll]
    ELSE IF failing = 2 THEN [ret |-> FALSE, coll |-> coll]
    ELSE [ret |-> TRUE, coll |-> NotOfSource(coll, s)]

\* a list_sources that gives the source of every record, in stored order
list_sources_PerRecord(coll, fails, is_stale) ==
    IF fails \/ is_stale THEN << >>
    ELSE [i \in DOMAIN coll |-> coll[i].metadata.source_file]

\* VectorStore.list_sources()
list_sources(coll, fails, is_stale) ==
    IF fails \/ is_stale THEN << >>
    ELSE IF coll = << >> THEN << >>
    ELSE SortedSources({ coll[i].metadata.source_file : i \in DOMAIN coll })

\* the dictionary get_stats returns of the count it has read and the list of
\* list_sources
Stats(total, srcs) ==
    [total_chunks |-> total, total_sources |-> Len(srcs), sources |-> srcs,
     collection_name |-> COLLECTION_NAME]

\* the dictionary get_stats returns when collection.count() raises: {}
NoStats == << >>

\* VectorStore.get_stats() when nothing runs between its two store calls;
\* failing names the store call that raises: 1 is collection.count(), 2 is
\* the collection.get of list_sources, 0 is neither
get_stats(coll, failing, is_stale) ==
    IF failing = 1 \/ is_stale THEN NoStats
    ELSE Stats(Len(coll), list_sources(coll, failing = 2, is_stale))

\* a reset that tells success when the client raised
reset_HidesFailure(coll, failing, is_stale) ==
    IF failing = 1 \/ is_stale
    THEN [ret |-> TRUE, coll |-> coll, stale |-> is_stale]
    ELSE IF failing = 2 THEN [ret |-> TRUE, coll |-> << >>, stale |-> TRUE]
    ELSE [ret |-> TRUE, coll |-> << >>, stale |-> FALSE]

\* a reset that leaves the records where they are
reset_KeepsRecords(coll, failing, is_stale) ==
    IF failing = 1 \/ is_stale
    THEN [ret |-> FALSE, coll |-> coll, stale |-> is_stale]
    ELSE IF failing = 2 THEN [ret |-> FALSE, coll |-> << >>, stale |-> TRUE]
    ELSE [ret |-> TRUE, coll |-> coll, stale |-> FALSE]

\* VectorStore.reset(); failing names the client call that raises: 1 is
\* delete_collection, which also raises when no collection has the name, 2
\* is get_or_create_collection, 0 is neither
reset(coll, failing, is_stale) ==
    IF failing = 1 \/ is_stale
    THEN [ret |-> FALSE, coll |-> coll, stale |-> is_stale]
    ELSE IF failing = 2 THEN [ret |-> FALSE, coll |-> << >>, stale |-> TRUE]
    ELSE [ret |-> TRUE, coll |-> << >>, stale |-> FALSE]

\* the embedding the model has for a chunk
OwnEmbeddings(cs) ==
    [i \in DOMAIN cs |->
        Some(EmbeddingOf(IF "text" \in DOMAIN cs[i] THEN cs[i].text ELSE << >>))]

\* the lists of chunks add_documents is called with
ChunkLists ==
    LET of_a == [text |-> << "a", "b" >>, chunk_index |-> 0,
                 source_file |-> "a.txt", chunk_size |-> 2]
        of_A == [text |-> << "b" >>, chunk_index |-> 1,
                 source_file |-> "A.txt", chunk_size |-> 1]
        no_source == [text |-> << "a", "b" >>]
        no_text == [chunk_index |-> 0, source_file |-> "a.txt"]
    IN  { << >>, << of_a >>, << of_A >>, << no_source >>, << no_text >>,
          << of_a, of_A >>, << of_A, of_a >>, << of_a, of_a >>,
          << of_a, no_text >> }

\* the calls of add_documents: the chunks with their embeddings while the
\* store works or fails, with one embedding missing (None), with one
\* embedding too few and with one too many
AddCalls ==
    UNION { { << cs, OwnEmbeddings(cs), FALSE >>,
              << cs, OwnEmbeddings(cs), TRUE >>,
              << cs, SubSeq(OwnEmbeddings(cs), 1, Len(cs) - 1), FALSE >>,
              << cs, OwnEmbeddings(cs) \o << Some(0) >>, FALSE >> }
            \cup { << cs, [OwnEmbeddings(cs) EXCEPT ![i] = None], FALSE >> :
                     i \in DOMAIN cs }
          : cs \in ChunkLists }

\* the calls of search: every query vector with no, one and the most
\* results asked for, and one call on which the store fails
SearchCalls ==
    ((0..MaxVec) \X {0, 1, MaxTopK} \X {FALSE}) \cup { << 0, 1, TRUE >> }

StoreInit ==
    /\ next_id = Len(Pool) + 1
    /\ stale = FALSE
    /\ st_call = [op |-> "none"]
    /\ total_docs = None
    /\ upload_dir = {}

\* what the orchestrator's variables keep while the facade is called
retrieverLocals ==
    << self_top_k, pc, call, query, req_top_k, top_k, text, query_embedding,
       search_results, sources, result, log, stages >>

\* add_documents(chunks, embeddings) is called and returns
AddDocuments(cs, embs, fails) ==
    /\ next_id + Len(cs) - 1 <= Len(Pool) + MaxIds
    /\ LET r == add_documents(collection, cs, embs, next_id, fails, stale)
       IN  /\ collection' = r.coll
           /\ next_id' = IF r.ret THEN next_id + Len(cs) ELSE next_id
           /\ st_call' = [op |-> "add_documents", chunks |-> cs,
                          embeddings |-> embs,
                          raised |-> /\ cs # << >> /\ embs # << >>
                                     /\ Len(cs) = Len(embs) /\ ~LacksText(cs)
                                     /\ AddRaises(embs, fails, stale),
                          before |-> collection, ret |-> r.ret]
    /\ UNCHANGED << stale, total_docs >>
    /\ UNCHANGED << retrieverLocals, gatewayVars, splitterVars, consumerVars,
                    upload_dir >>

\* search(query_embedding, top_k) is called and returns
StoreSearch(q, k, fails) ==
    /\ st_call' = [op |-> "search", top_k |-> k,
                   raised |-> fails \/ stale \/ k <= 0,
                   before |-> collection,
                   ret |-> search(collection, q, k, fails \/ stale)]
    /\ UNCHANGED << collection, next_id, stale, total_docs >>
    /\ UNCHANGED << retrieverLocals, gatewayVars, splitterVars, consumerVars,
                    upload_dir >>

\* delete_by_source(source_file) is called and returns
DeleteBySource(s, failing) ==
    /\ LET r == delete_by_source(collection, s, failing, stale)
       IN  /\ collection' = r.coll
           /\ st_call' = [op |-> "delete_by_source", source_file |-> s,
                          raised |-> stale \/ failing = 1
                                       \/ (failing = 2 /\ OfSource(collection, s) # << >>),
                          before |-> collection, ret |-> r.ret]
    /\ UNCHANGED << next_id, stale, total_docs >>
    /\ UNCHANGED << retrieverLocals, gatewayVars, splitterVars, consumerVars,
                    upload_dir >>

\* list_sources() is called and returns
ListSources(fails) ==
    /\ st_call' = [op |-> "list_sources", raised |-> fails \/ stale,
                   before |-> collection,
                   ret |-> list_sources(collection, fails, stale)]
    /\ UNCHANGED << collection, next_id, stale, total_docs >>
    /\ UNCHANGED << retrieverLocals, gatewayVars, splitterVars, consumerVars,
                    upload_dir >>

\* get_stats() is called and returns
GetStats(failing) ==
    /\ st_call' = [op |-> "get_stats", raised |-> stale \/ failing # 0,
                   before |-> collection,
                   ret |-> get_stats(collection, failing, stale)]
    /\ UNCHANGED << collection, next_id, stale, total_docs >>
    /\ UNCHANGED << retrieverLocals, gatewayVars, splitterVars, consumerVars,
                    upload_dir >>

\* get_stats() is called: "total_docs = self.collection.count()", on which
\* the call returns {} when the store raises
StatsCount(fails) ==
    /\ IsNone(total_docs)
    /\ IF fails \/ stale
       THEN /\ st_call' = [op |-> "get_stats", raised |-> TRUE,
                           before |-> collection, ret |-> NoStats]
            /\ total_docs' = None
       ELSE /\ total_docs' = Some(Len(collection))
            /\ st_call' = st_call
    /\ UNCHANGED << collection, next_id, stale >>
    /\ UNCHANGED << retrieverLocals, gatewayVars, splitterVars, consumerVars,
                    upload_dir >>

\* get_stats() goes on: "sources = self.list_sources()" and the return
StatsSources(fails) ==
    /\ ~IsNone(total_docs)
    /\ st_call' = [op |-> "get_stats", raised |-> fails \/ stale,
                   before |-> collection,
                   ret |-> Stats(TheValue(total_docs),
                                 list_sources(collection, fails, stale))]
    /\ total_docs' = None
    /\ UNCHANGED << collection, next_id, stale >>
    /\ UNCHANGED << retrieverLocals, gatewayVars, splitterVars, consumerVars,
                    upload_dir >>

\* reset() is called and returns
Reset(failing) ==
    /\ LET r == reset(collection, failing, stale)
       IN  /\ collection' = r.coll
           /\ stale' = r.stale
           /\ st_call' = [op |-> "reset", raised |-> stale \/ failing # 0,
                          before |-> collection, ret |-> r.ret]
    /\ UNCHANGED << next_id, total_docs >>
    /\ UNCHANGED << retrieverLocals, gatewayVars, splitterVars, consumerVars,
                    upload_dir >>

\* the server starts again: VectorStore(db_path, collection_name) gets or
\* creates the collection of the name
Restart ==
    /\ stale
    /\ stale' = FALSE
    /\ st_call' = [op |-> "none"]
    /\ total_docs' = None
    /\ UNCHANGED << collection, next_id >>
    /\ UNCHANGED << retrieverLocals, gatewayVars, splitterVars, consumerVars,
                    upload_dir >>

----------------------------------------------------------------------------
(* Upload flow: backend/app/api/upload.py *)

\* what document_processor.process_file returns: None, or the text after
\* _clean_text, which is empty or has no whitespace but single spaces inside
Extracted ==
    { None, Some(<< >>), Some(<< "a" >>), Some(<< "a", " ", "b" >>),
      Some(<< "a", "b", "b", "a", "b" >>) }

\* the names of the uploaded files
Filenames == { "a.txt", "a.exe" }

\* Path(file.filename).suffix.lower() is one of the allowed extensions
AllowedExtension(filename) == filename = "a.txt"

\* the configurations of the server's splitter
UploadConfigs ==
    { << 2, 0 >>, << 3, 1 >>, << 0, 0 - 1 >> }

\* the positions of a batch whose embedding fails: none, the first, the
\* second, all
FailingItems == { {}, {1}, {2}, 1..MaxTextLen }

\* the filter of the upload flow that keeps every chunk
ValidChunks_KeepsAll(cs, embs) == cs

\* "for chunk, embedding in zip(chunks, embeddings): if embedding is not
\* None: valid_chunks.append(chunk)"
RECURSIVE ValidChunks(_, _)
ValidChunks(cs, embs) ==
    IF cs = << >> \/ embs = << >> THEN << >>
    ELSE (IF ~IsNone(Head(embs)) THEN << Head(cs) >> ELSE << >>)
         \o ValidChunks(Tail(cs), Tail(embs))

\* "... valid_embeddings.append(embedding)"
RECURSIVE ValidEmbeddings(_, _)
ValidEmbeddings(cs, embs) ==
    IF cs = << >> \/ embs = << >> THEN << >>
    ELSE (IF ~IsNone(Head(embs)) THEN << Head(embs) >> ELSE << >>)
         \o ValidEmbeddings(Tail(cs), Tail(embs))

\* UploadResponse(success, message, filename, chunks_created, error)
UploadResponse(success, filename, chunks_created, error) ==
    [success |-> success, filename |-> filename,
     chunks_created |-> chunks_created, error |-> error]

\* upload_document(file): the whole handler. extracted is what process_file
\* returns of the saved file, failing_items are the positions of the chunks
\* the embedding model fails on at every attempt, add_fails tells that the
\* store raises in add_documents. (The test at the handler's start, that
\* the server's components are constructed, holds once the server runs.)
Upload(filename, extracted, failing_items, add_fails) ==
    /\ sp_pc = "ready"
    /\ IF ~AllowedExtension(filename)
       THEN /\ st_call' = [op |-> "upload_document", filename |-> filename,
                           before |-> collection, status_code |-> 400]
            /\ UNCHANGED << collection, next_id, upload_dir >>
       ELSE
       LET cs == IF IsNone(extracted) \/ extracted = Some(<< >>) THEN << >>
                 ELSE split_text(TheValue(extracted), filename, None,
                                 chunk_size, chunk_overlap)
           ts == [i \in DOMAIN cs |-> cs[i].text]
           embs == generate_embeddings_batch(
                       ts, [i \in DOMAIN ts |->
                               OutcomesAfter(IF i \in failing_items
                                             THEN RetryCount ELSE 0, ts[i])]).ret
           valid_chunks == ValidChunks(cs, embs)
           valid_embeddings == ValidEmbeddings(cs, embs)
           added == add_documents(collection, valid_chunks, valid_embeddings,
                                  next_id, add_fails, stale)
           done(response, embedded) ==
               st_call' = [op |-> "upload_document", filename |-> filename,
                           before |-> collection, status_code |-> 200,
                           extracted |-> extracted, embeddings |-> embedded,
                           add_fails |-> add_fails, response |-> response]
       IN  /\ TRUE
           /\ upload_dir' = upload_dir \cup {filename}
           /\ IF IsNone(extracted) \/ extracted = Some(<< >>)
              THEN /\ done(UploadResponse(FALSE, filename, 0,
                                          Some("Could not extract text")), << >>)
                   /\ UNCHANGED << collection, next_id >>
              ELSE IF cs = << >>
              THEN /\ done(UploadResponse(FALSE, filename, 0,
                                Some("Could not split text into chunks")), << >>)
                   /\ UNCHANGED << collection, next_id >>
              ELSE IF valid_embeddings = << >>
              THEN /\ done(UploadResponse(FALSE, filename, 0,
                                Some("Could not generate embeddings")), embs)
                   /\ UNCHANGED << collection, next_id >>
              ELSE /\ next_id + Len(valid_chunks) - 1 <= Len(Pool) + MaxIds
                   /\ collection' = added.coll
                   /\ next_id' = IF added.ret THEN next_id + Len(valid_chunks)
                                  ELSE next_id
                   /\ IF added.ret
                      THEN done(UploadResponse(TRUE, filename,
                                               Len(valid_chunks), None), embs)
                      ELSE done(UploadResponse(FALSE, filename, 0,
                                    Some("Could not store embeddings")), embs)
    /\ UNCHANGED << stale, total_docs >>
    /\ UNCHANGED << retrieverLocals, gatewayVars, splitterVars, consumerVars >>

----------------------------------------------------------------------------
(* Specifications *)

\* the chunk sizes and overlaps a splitter is constructed with: the small
\* ones, a negative chunk size, and the default configuration
ChunkSizes == 0..MaxChunk
ChunkOverlaps == (0 - 1)..MaxChunk
Configs ==
    (ChunkSizes \X ChunkOverlaps)
        \cup { << 0 - 1, 0 - 2 >>, << CHUNK_SIZE, CHUNK_OVERLAP >> }

\* the calls of split_text on a splitter of the given chunk size: every short
\* text without metadata, the texts of letters with every metadata, and on
\* the default configuration the long text
SplitCalls(size) ==
    (Texts \X {None})
        \cup (SeqsUpTo(Letters, MaxTextLen) \X Metadatas)
        \cup (IF size = CHUNK_SIZE THEN {LongText} \X Metadatas ELSE {})

Init == RetrieverInit /\ SplitterInit /\ ConsumerInit /\ StoreInit

Next ==
    \/ \E q \in Queries, k \in TopKArgs : Request(q, k)
    \/ \E out \in EmbedOutcomes : EmbedQuery(out)
    \/ \E fails \in BOOLEAN : Search(fails)
    \/ Assemble
    \/ \E outs \in [1..RetryCount -> LLMOutcomes] : Generate(outs)
    \/ \E t \in Queries, outs \in [1..RetryCount -> EmbedOutcomes] :
          EmbedDocument(t, outs)
    \/ \E q \in Queries \ {<< >>}, k \in TopKArgs \ {Some(0 - 1), Some(0)} :
          StreamRequest(q, k)
    \/ Return

\* the orchestrator and the gateways, the splitter left alone
Spec == Init /\ [][Next]_vars

SplitInit ==
    /\ RetrieverInit
    /\ collection = << >>
    /\ self_top_k = 1
    /\ SplitterInit
    /\ ConsumerInit
    /\ StoreInit

SplitNext ==
    \/ \E c \in Configs : Construct(c[1], c[2])
    \/ \E c \in SplitCalls(chunk_size) : SplitText(c[1], c[2])
    \/ Window
    \/ Wrap
    \/ SplitReturn

\* the splitter, the orchestrator left alone
SplitSpec == SplitInit /\ [][SplitNext]_vars

GatewayNext ==
    \/ \E t \in Queries, outs \in [1..RetryCount -> EmbedOutcomes] :
          EmbedDocument(t, outs)
    \/ \E ts \in Batches : \E failures \in BatchFailures(ts) : EmbedBatch(ts, failures)
    \/ \E q \in Queries, out \in EmbedOutcomes : QueryEmbedding(q, out)
    \/ \E prompt \in Prompts, outs \in [1..RetryCount -> LLMOutcomes] :
          GenerateResponse(prompt, outs)
    \/ \E q \in {<< >>, << "a" >>}, context_chunks \in Contexts,
          outs \in [1..RetryCount -> LLMOutcomes] :
          GenerateRag(q, context_chunks, outs)
    \/ Return

\* the embedding and generation gateways called directly, on an empty index
GatewaySpec == SplitInit /\ [][GatewayNext]_vars

ConsumerNext ==
    \/ \E status \in StatusCodes, stream \in Streams : Post(status, stream)
    \/ StreamTokens
    \/ Rerun

\* the frontend's stream consumer, the backend's components left alone
ConsumerSpec == SplitInit /\ [][ConsumerNext]_vars

StoreNext ==
    \/ \E c \in AddCalls : AddDocuments(c[1], c[2], c[3])
    \/ \E c \in SearchCalls : StoreSearch(c[1], c[2], c[3])
    \/ \E s \in {"a.txt", "A.txt"}, failing \in 0..2 : DeleteBySource(s, failing)
    \/ \E fails \in BOOLEAN : ListSources(fails)
    \/ \E failing \in 0..2 : GetStats(failing)
    \/ \E failing \in 0..2 : Reset(failing)
    \/ Restart

\* the facade called by one caller at a time, on an index that is empty at
\* the start
StoreSpec == SplitInit /\ [][StoreNext]_vars

UploadNext ==
    \/ \E c \in UploadConfigs : Construct(c[1], c[2])
    \/ \E filename \in Filenames, extracted \in Extracted,
          failing_items \in FailingItems, add_fails \in BOOLEAN :
          Upload(filename, extracted, failing_items, add_fails)

\* the upload endpoint of a server whose splitter has one of the
\* configurations, on an index that is empty at the start
UploadSpec == SplitInit /\ [][UploadNext]_vars

StatsNext ==
    \/ \E cs \in ChunkLists : AddDocuments(cs, OwnEmbeddings(cs), FALSE)
    \/ \E s \in {"a.txt", "A.txt"} : DeleteBySource(s, 0)
    \/ Reset(0)
    \/ \E fails \in BOOLEAN : StatsCount(fails)
    \/ \E fails \in BOOLEAN : StatsSources(fails)

\* get_stats with the calls that run between its two store calls: the
\* facade takes no lock, and the index on the database path is also written
\* by the server's other workers and by reset_db.py
StatsSpec == SplitInit /\ [][StatsNext]_vars

\* the splitter when a call that has started is run to its end: the loop of
\* _create_chunks and the return of split_text are straight-line code of one
\* thread
SplitFairSpec == SplitSpec /\ WF_vars(Window) /\ WF_vars(Wrap)

----------------------------------------------------------------------------
(* Properties *)

IsRag == call = "retrieve_and_generate"
Returned == pc = "returned" /\ IsRag

Last(s) == s[Len(s)]

\* the events of the running call's log with operation op
Calls(op) == { i \in DOMAIN log : log[i].op = op }
RaisedCalls(op) == { i \in Calls(op) : log[i].raised }

Pipeline == << "EMBEDDING_QUERY", "SEARCHING", "ASSEMBLING_CONTEXT", "GENERATING" >>
Terminals == {"DONE", "ERROR"}

\* st is a prefix of the pipeline, followed by at most one terminal
InOrder(st) ==
    LET n == IF st # << >> /\ Last(st) \in Terminals THEN Len(st) - 1 ELSE Len(st)
    IN  /\ n <= Len(Pipeline)
        /\ \A i \in 1..n : st[i] = Pipeline[i]

\* a running call stands in the last stage it entered; a returned call ended
\* in one terminal, DONE with success and ERROR with an error string
OneOutcome ==
    /\ pc # "returned" => stages # << >> /\ Last(stages) = pc
    /\ pc = "returned" =>
          /\ stages # << >> /\ Last(stages) \in Terminals
          /\ Last(stages) = "DONE" <=> result.success
          /\ Last(stages) = "ERROR" <=>
                (~result.success /\ ~IsNone(Get(result, "error")))

\* C1 as stated: the stages are passed in order, a call ends in one terminal,
\* and a failure of the collaborator of any stage (here: the embedding model
\* during EMBEDDING_QUERY, the vector store during SEARCHING) ends the call
\* in ERROR.
C1_AsClaimed ==
    IsRag =>
       /\ InOrder(stages)
       /\ OneOutcome
       /\ (pc = "returned"
           /\ RaisedCalls("embed_content_query") \cup RaisedCalls("query") # {})
          => Last(stages) = "ERROR"

\* C1 as amended: every call of retrieve_and_generate passes the stages
\* EMBEDDING_QUERY, SEARCHING, ASSEMBLING_CONTEXT, GENERATING in that order
\* without going back and ends in exactly one terminal (DONE with
\* success=true, or ERROR with success=false and an error string); ERROR is
\* reached from the entry guard, from EMBEDDING_QUERY (the embedding failed)
\* and from GENERATING (the generation failed) only: a failure of the vector
\* store during SEARCHING ends the call in DONE with the "no information"
\* answer, and ASSEMBLING_CONTEXT always leads on to GENERATING.
C1_StagesInOrder ==
    IsRag =>
       /\ InOrder(stages)
       /\ OneOutcome
       /\ (pc = "returned" /\ Last(stages) = "ERROR") =>
             \/ stages = << "ERROR" >> /\ IsBlank(query)
             \/ stages = << "EMBEDDING_QUERY", "ERROR" >>
                /\ RaisedCalls("embed_content_query") # {}
             \/ stages = Pipeline \o << "ERROR" >>
                /\ result.error = Some("Failed to generate response")
       /\ (pc = "returned" /\ RaisedCalls("query") # {}) =>
             /\ stages = << "EMBEDDING_QUERY", "SEARCHING", "DONE" >>
             /\ result = NoMatchResult

\* a call in which the vector store raised during SEARCHING has returned
C1_Witness ==
    /\ Returned
    /\ RaisedCalls("query") # {}
    /\ top_k >= 1
    /\ collection # << >>
    /\ stages = << "EMBEDDING_QUERY", "SEARCHING", "DONE" >>

\* a well-formed event stream: tokens, then one metadata event, then [DONE]
WellFormedStream(events) ==
    /\ Len(events) >= 2
    /\ events[Len(events)].kind = "done"
    /\ events[Len(events) - 1].kind = "metadata"
    /\ \A i \in 1..(Len(events) - 2) : events[i].kind = "token"

\* C2 as stated: for a non-blank query with at least one match, the
\* streaming query flow emits zero or more token events, then exactly one
\* metadata event, then exactly one [DONE] event as the last event.
C2_AsClaimed ==
    (pc = "returned" /\ call = "query_chatbot_stream"
     /\ ~IsBlank(query) /\ collection # << >>)
    => WellFormedStream(result.events)

\* the log follows the retry policy for operation op: at most retry_count
\* attempts, numbered from 0, each but the last one failed and followed by a
\* wait of 2^attempt, nothing after the last
FollowsRetryPolicy(op, retry_count) ==
    LET n == Cardinality(Calls(op))
    IN  /\ n <= retry_count
        /\ Len(log) = IF n = 0 THEN 0 ELSE 2 * n - 1
        /\ \A a \in 0..(n - 1) :
              /\ log[2 * a + 1].op = op
              /\ log[2 * a + 1].arg = a
              /\ a < n - 1 =>
                    /\ log[2 * a + 1].raised
                    /\ log[2 * a + 2] = Event("sleep", Pow2(a), FALSE)

\* C3 as stated: every embed call, in document mode and in query mode alike,
\* attempts the external model up to 3 times with a wait of 2^attempt after a
\* failed attempt, stops at the first success and reports failure only after
\* all attempts failed; so 'Failed to generate query embedding' is returned
\* only after 3 failed attempts.
C3_AsClaimed ==
    /\ (pc = "returned" /\ call = "generate_embedding" /\ ~IsBlank(text)) =>
          /\ FollowsRetryPolicy("embed_content_document", RetryCount)
          /\ IsNone(result) <=>
                Cardinality(RaisedCalls("embed_content_document")) = RetryCount
    /\ (Returned /\ Get(result, "error") = Some("Failed to generate query embedding")) =>
          Cardinality(RaisedCalls("embed_content_query")) = RetryCount

\* the document mode alone follows the retry policy
DocumentModeRetries ==
    (pc = "returned" /\ call = "generate_embedding" /\ ~IsBlank(text)) =>
       /\ FollowsRetryPolicy("embed_content_document", RetryCount)
       /\ IsNone(result) <=>
             Cardinality(RaisedCalls("embed_content_document")) = RetryCount

\* every character of s is whitespace (the empty string included)
AllWhitespace(s) == \A i \in DOMAIN s : s[i] \in Whitespace

Ellipsis == << ".", ".", "." >>

\* C4: when the query embedding and the search succeed with at least one
\* match and the generation fails, retrieve_and_generate returns
\* success=false, error 'Failed to generate response' and answer null, with
\* the full sources list and the chunks_used count of the assembling stage.
C4_SourcesSurviveFailure ==
    (Returned /\ stages = Pipeline \o << "ERROR" >>) =>
       /\ search_results.count >= 1
       /\ result.success = FALSE
       /\ result.error = Some("Failed to generate response")
       /\ result.answer = None
       /\ result.sources = sources
       /\ Len(result.sources) = search_results.count
       /\ result.chunks_used = search_results.count
       /\ result.sources = SuccessResult(Some(<< "a" >>), sources,
                                         search_results.documents).sources
       /\ result.chunks_used = SuccessResult(Some(<< "a" >>), sources,
                                             search_results.documents).chunks_used

\* a call whose generation failed after a search with two matches
C4_Witness ==
    /\ Returned
    /\ stages = Pipeline \o << "ERROR" >>
    /\ Cardinality(RaisedCalls("generate_content")) = RetryCount
    /\ Len(result.sources) = 2

\* C5: when the search yields zero matches (as on an empty index, where it
\* returns count = 0 and no match rather than an error) the call returns
\* success=true with the fixed 'no information' answer, sources = [] and
\* chunks_used = 0, and the generation gateway is not called.
C5_NoMatchIsSuccess ==
    /\ (Returned /\ Calls("query") # {} /\ search_results.count = 0) =>
          /\ result.success = TRUE
          /\ result.answer = Some(NoInformation)
          /\ result.sources = << >>
          /\ result.chunks_used = 0
          /\ Calls("generate_content") = {}
          /\ Last(stages) = "DONE"
    /\ (IsRag /\ Calls("query") # {} /\ collection = << >>) =>
          /\ search_results.count = 0
          /\ search_results.documents = << >>
          /\ search_results.metadatas = << >>
          /\ search_results.distances = << >>
          /\ pc = "returned"

\* a call on an empty index has returned, the store having answered
C5_Witness ==
    /\ Returned
    /\ collection = << >>
    /\ Calls("query") # {}
    /\ RaisedCalls("query") = {}
    /\ result.success

\* C6: when the query embedding fails the call returns success=false with
\* error 'Failed to generate query embedding', sources = [] and
\* chunks_used = 0, and neither the search nor the generation gateway is
\* called.
C6_EmbeddingFailure ==
    (Returned /\ RaisedCalls("embed_content_query") # {}) =>
       /\ result.success = FALSE
       /\ result.error = Some("Failed to generate query embedding")
       /\ result.answer = None
       /\ result.sources = << >>
       /\ result.chunks_used = 0
       /\ Calls("query") = {}
       /\ Calls("generate_content") = {}
       /\ Len(log) = 1

\* a call whose query embedding failed has returned
C6_Witness ==
    /\ Returned
    /\ RaisedCalls("embed_content_query") # {}
    /\ collection # << >>
    /\ ~AllWhitespace(query)

\* C7: for every empty or whitespace-only query retrieve_and_generate
\* returns at once with success=false, error 'Empty query provided',
\* sources = [] and chunks_used = 0, without a call of the embedding
\* gateway, the vector index or the generation gateway, and without a change
\* of the index or of the orchestrator's configuration.
C7_BlankQueryRejected ==
    [][(call' = "retrieve_and_generate" /\ pc = "idle" /\ AllWhitespace(query'))
       => /\ pc' = "returned"
          /\ result' = [success |-> FALSE, answer |-> None,
                        error |-> Some("Empty query provided"),
                        sources |-> << >>, chunks_used |-> 0]
          /\ log' = << >>
          /\ stages' = << "ERROR" >>
          /\ collection' = collection
          /\ self_top_k' = self_top_k]_vars

\* a call with a whitespace-only query has returned
C7_Witness ==
    /\ Returned
    /\ query # << >>
    /\ AllWhitespace(query)
    /\ result.error = Some("Empty query provided")
    /\ log = << >>

\* C8 as stated: the search is called with exactly the top_k the request
\* carries, and with the configured default only when it carries none.
C8_AsClaimed ==
    IsRag =>
       \A i \in Calls("query") :
          log[i].arg = IF IsNone(req_top_k) THEN self_top_k ELSE TheValue(req_top_k)

\* C9: the i-th source is derived from the i-th match, in rank order:
\* chunk_text is the whole text of at most 100 characters and otherwise its
\* first 100 characters followed by '...', source_file and chunk_index are
\* the metadata's, similarity_score = 1 - distance; so the scores do not
\* increase along the list when the distances do not decrease.
C9_SourcesFollowMatches ==
    (IsRag /\ pc \in {"GENERATING", "returned"} /\ search_results.count > 0) =>
       LET docs == search_results.documents
           metas == search_results.metadatas
           dists == search_results.distances
       IN  /\ Len(sources) = search_results.count
           /\ Len(docs) = Len(sources)
           /\ \A i \in 1..Len(sources) :
                 /\ Len(docs[i]) <= PreviewLen => sources[i].chunk_text = docs[i]
                 /\ Len(docs[i]) > PreviewLen =>
                       sources[i].chunk_text = SubSeq(docs[i], 1, PreviewLen) \o Ellipsis
                 /\ sources[i].source_file = metas[i].source_file
                 /\ sources[i].chunk_index = metas[i].chunk_index
                 /\ sources[i].similarity_score = 1 - dists[i]
           /\ (\A i, j \in 1..Len(dists) : i < j => dists[i] <= dists[j]) =>
                 \A i, j \in 1..Len(sources) :
                    i < j => sources[i].similarity_score >= sources[j].similarity_score

\* the sources of two matches, one text of exactly 100 characters and one
\* longer, are assembled
C9_Witness ==
    /\ IsRag
    /\ pc = "GENERATING"
    /\ Len(sources) = 2
    /\ \E i \in 1..2 : Len(search_results.documents[i]) = PreviewLen
    /\ \E i \in 1..2 : Len(search_results.documents[i]) > PreviewLen
    /\ sources[1].similarity_score > sources[2].similarity_score

\* the texts of the chunk dictionaries split_text returned
ReturnedTexts == [i \in 1..Len(chunk_dicts) |-> chunk_dicts[i].text]

\* s without its first n characters, and the last n characters of s
DropFirst(s, n) == SubSeq(s, n + 1, Len(s))
LastOf(s, n) == SubSeq(s, Len(s) - n + 1, Len(s))

\* the chunks cs in order, the first overlap characters of each chunk after
\* the first removed, concatenated
RECURSIVE Rejoin(_, _, _)
Rejoin(cs, overlap, i) ==
    IF i > Len(cs) THEN << >>
    ELSE (IF i = 1 THEN cs[i] ELSE DropFirst(cs[i], overlap))
         \o Rejoin(cs, overlap, i + 1)

\* the first overlap characters of every chunk after the first are the last
\* overlap characters of the chunk before it
OverlapVerbatim(cs, overlap) ==
    \A i \in 2..Len(cs) :
       /\ Len(cs[i]) >= overlap
       /\ Len(cs[i - 1]) >= overlap
       /\ SubSeq(cs[i], 1, overlap) = LastOf(cs[i - 1], overlap)

\* no window of the walk begins or ends with whitespace
NoWindowTrimmed == \A i \in 1..Len(windows) : Strip(windows[i]) = windows[i]

\* C10 as stated (the overlap taken non-negative, as a removed overlapping
\* prefix needs): for every text and every chunk_overlap < chunk_size the
\* returned chunks, the overlapping prefix of each chunk after the first
\* removed, concatenate to the normalized text, and each removed prefix
\* equals the tail of the preceding chunk.
C10_AsClaimed ==
    (sp_pc = "done" /\ chunk_overlap >= 0) =>
       /\ Rejoin(ReturnedTexts, chunk_overlap, 1) = _prepare_text(sp_input)
       /\ OverlapVerbatim(ReturnedTexts, chunk_overlap)

\* C10 as amended: for every text and every 0 <= chunk_overlap < chunk_size
\* such that no window of the walk begins or ends with whitespace (the trim
\* of a window removes nothing), the returned chunks, the overlapping prefix
\* of each chunk after the first removed, concatenate to exactly the
\* normalized text, and each removed prefix equals the tail of the preceding
\* chunk.
C10_Reconstruction ==
    (sp_pc = "done" /\ chunk_overlap >= 0 /\ NoWindowTrimmed) =>
       /\ Rejoin(ReturnedTexts, chunk_overlap, 1) = _prepare_text(sp_input)
       /\ OverlapVerbatim(ReturnedTexts, chunk_overlap)

\* a text with whitespace inside was split into overlapping chunks, no
\* window trimmed
C10_Witness ==
    /\ sp_pc = "done"
    /\ chunk_overlap >= 1
    /\ Len(chunk_dicts) >= 2
    /\ NoWindowTrimmed
    /\ \E i \in 1..Len(sp_text) : sp_text[i] \in Whitespace
    /\ sp_input # sp_text

----------------------------------------------------------------------------
(* The splitter's contract *)

\* the lengths of the returned chunks' texts and their chunk_index values
ChunkLengths == [i \in 1..Len(chunk_dicts) |-> Len(chunk_dicts[i].text)]
ChunkIndexes == [i \in 1..Len(chunk_dicts) |-> chunk_dicts[i].chunk_index]

\* split_text has returned from splitting the long text (2500 identical
\* non-whitespace characters) under chunk_size 1000, chunk_overlap 200, no
\* metadata given
LongTextSplit ==
    /\ sp_pc = "done"
    /\ sp_input = LongText
    /\ Len(sp_input) = 2500
    /\ chunk_size = 1000
    /\ chunk_overlap = 200
    /\ IsNone(metadata)

\* C11 as stated: splitting 2500 identical non-whitespace characters with
\* chunk_size 1000 and chunk_overlap 200 returns exactly 3 chunks of lengths
\* 1000, 1000 and 700 with chunk_index 0, 1 and 2.
C11_AsClaimed ==
    LongTextSplit =>
       /\ ChunkLengths = << 1000, 1000, 700 >>
       /\ ChunkIndexes = << 0, 1, 2 >>

\* C11 as amended: splitting 2500 identical non-whitespace characters with
\* chunk_size 1000 and chunk_overlap 200 returns exactly 3 chunks of lengths
\* 1000, 1000 and 900 (the windows [0,1000), [800,1800), [1600,2500)) with
\* chunk_index 0, 1 and 2.
C11_LongTextChunks ==
    LongTextSplit =>
       /\ Len(chunk_dicts) = 3
       /\ ChunkLengths = << 1000, 1000, 900 >>
       /\ ChunkIndexes = << 0, 1, 2 >>
       /\ windows = << Slice(sp_input, 0, 1000), Slice(sp_input, 800, 1800),
                       Slice(sp_input, 1600, 2500) >>

\* the long text has been split into its three chunks
C11_Witness ==
    /\ LongTextSplit
    /\ Len(chunk_dicts) = 3
    /\ Len(windows) = 3

\* s holds no run of two spaces, no run of three newlines, and neither
\* begins nor ends with whitespace
IsNormalized(s) ==
    /\ \A i \in 1..(Len(s) - 1) : ~(s[i] = " " /\ s[i + 1] = " ")
    /\ \A i \in 1..(Len(s) - 2) :
          ~(s[i] = "\n" /\ s[i + 1] = "\n" /\ s[i + 2] = "\n")
    /\ s # << >> => (s[1] \notin Whitespace /\ s[Len(s)] \notin Whitespace)

\* C12 as stated: for every input text of length at most chunk_size,
\* split_text returns exactly one chunk, whose text is the normalized input.
C12_AsClaimed ==
    (sp_pc = "done" /\ Len(sp_input) <= chunk_size) =>
       /\ Len(chunk_dicts) = 1
       /\ chunk_dicts[1].text = _prepare_text(sp_input)

\* C12 as amended: for every input text of length at most chunk_size that
\* is not empty or all whitespace, split_text returns exactly one chunk,
\* whose text is the normalized input (runs of spaces collapsed to one, runs
\* of three or more newlines collapsed to two, trimmed); for an empty or
\* all-whitespace text it returns the empty list.
C12_ShortTextOneChunk ==
    (sp_pc = "done" /\ Len(sp_input) <= chunk_size) =>
       IF AllWhitespace(sp_input)
       THEN chunk_dicts = << >>
       ELSE /\ Len(chunk_dicts) = 1
            /\ chunk_dicts[1].text = _prepare_text(sp_input)
            /\ IsNormalized(chunk_dicts[1].text)
            /\ Len(chunk_dicts[1].text) <= Len(sp_input)

\* a short text with a run of spaces between two letters came back as one
\* chunk, shorter than the text
C12_Witness ==
    /\ sp_pc = "done"
    /\ Len(sp_input) <= chunk_size
    /\ Len(chunk_dicts) = 1
    /\ \E i \in 2..(Len(sp_input) - 2) :
          /\ sp_input[i] = " " /\ sp_input[i + 1] = " "
          /\ sp_input[i - 1] \in Letters /\ sp_input[i + 2] \in Letters
    /\ Len(chunk_dicts[1].text) < Len(sp_input)

\* C13: for every text and every (chunk_size, chunk_overlap) the constructor
\* accepts, split_text terminates (a call that has started returns) and every
\* returned chunk has length at most chunk_size.
C13_AsClaimed ==
    /\ [](sp_pc = "done" =>
            \A i \in 1..Len(chunk_dicts) : Len(chunk_dicts[i].text) <= chunk_size)
    /\ (sp_pc \in {"walk", "wrap"} ~> sp_pc = "done")

\* the keys of the chunk dictionary that C14 speaks of
ChunkKeys == {"text", "chunk_index", "chunk_size"}

C15_OverlapBelowSize ==
    [][/\ (sp_pc = "new" /\ sp_pc' # "new") =>
             sp_pc' = (IF chunk_overlap' >= chunk_size' THEN "ValueError"
                       ELSE "ready")
       /\ sp_pc = "ValueError" => sp_pc' = "ValueError"
       /\ sp_pc' \in {"ready", "walk", "wrap", "done"} =>
             chunk_overlap' < chunk_size']_vars

\* a construction with chunk_overlap equal to chunk_size has raised
C15_Witness ==
    /\ sp_pc = "ValueError"
    /\ chunk_overlap = chunk_size
    /\ chunk_size > 0

----------------------------------------------------------------------------
(* The embedding gateway's batch mode and guards *)

\* the positions in the log of the pacing waits, and the log's part for item i
PaceAt(i) ==
    IF i = 0 THEN 0
    ELSE IF i = Len(texts) THEN Len(log) + 1
    ELSE CHOOSE p \in 1..Len(log) :
            log[p] = Event("sleep_between_items", i, FALSE)
ItemEvents(i) == SubSeq(log, PaceAt(i - 1) + 1, PaceAt(i) - 1)

\* the events of one item: nothing for a blank text, otherwise up to
\* RetryCount attempts with the backoff waits between them
ItemFollowsRetryPolicy(events) ==
    LET n == (Len(events) + 1) \div 2
    IN  /\ n <= RetryCount
        /\ Len(events) = 2 * n - 1
        /\ \A a \in 0..(n - 1) :
              /\ events[2 * a + 1].op = "embed_content_document"
              /\ events[2 * a + 1].arg = a
              /\ a < n - 1 =>
                    /\ events[2 * a + 1].raised
                    /\ events[2 * a + 2] = Event("sleep", Pow2(a), FALSE)

BatchReturned == pc = "returned" /\ call = "generate_embeddings_batch"

\* C16: generate_embeddings_batch returns one slot per input text, in input
\* order; slot i holds the embedding of text i, or None when embedding text i
\* failed; a failed item neither ends the batch nor shifts the later slots;
\* the items are embedded one after the other with exactly one pacing wait
\* between successive items and none after the last.
C16_BatchSlots ==
    BatchReturned =>
       /\ Len(result) = Len(texts)
       /\ Cardinality({ p \in 1..Len(log) : log[p].op = "sleep_between_items" })
             = (IF texts = << >> THEN 0 ELSE Len(texts) - 1)
       /\ \A i \in 1..(Len(texts) - 1) :
             \E p \in 1..Len(log) : log[p] = Event("sleep_between_items", i, FALSE)
       /\ \A i \in 1..(Len(texts) - 2) : PaceAt(i) < PaceAt(i + 1)
       /\ \A i \in 1..Len(texts) :
             LET events == ItemEvents(i)
             IN  IF AllWhitespace(texts[i])
                 THEN events = << >> /\ IsNone(result[i])
                 ELSE /\ events # << >>
                      /\ ItemFollowsRetryPolicy(events)
                      /\ IF Last(events).raised
                         THEN Len(events) = 2 * RetryCount - 1 /\ IsNone(result[i])
                         ELSE result[i] = Some(EmbeddingOf(texts[i]))

\* a batch of two different texts whose first item failed at every attempt
\* and whose second item succeeded after one failed attempt
C16_Witness ==
    /\ BatchReturned
    /\ Len(texts) = 2
    /\ ~AllWhitespace(texts[1])
    /\ ~AllWhitespace(texts[2])
    /\ EmbeddingOf(texts[1]) # EmbeddingOf(texts[2])
    /\ IsNone(result[1])
    /\ result[2] = Some(EmbeddingOf(texts[2]))
    /\ Len(ItemEvents(2)) = 3

\* C17: for every empty or whitespace-only text an embed call, in document
\* mode and in query mode, fails at once: it returns None, makes no call to
\* the external embedding model and waits for no backoff.
C17_BlankTextNotEmbedded ==
    /\ (pc = "returned" /\ call = "generate_embedding" /\ AllWhitespace(text)) =>
          IsNone(result) /\ log = << >>
    /\ (pc = "returned" /\ call = "generate_query_embedding" /\ AllWhitespace(query)) =>
          IsNone(result) /\ log = << >>

\* generate_query_embedding has returned from a whitespace-only query
C17_Witness ==
    /\ pc = "returned"
    /\ call = "generate_query_embedding"
    /\ query = << " ", "\n" >>

----------------------------------------------------------------------------
(* The generation gateway's contract *)

ResponseReturned == pc = "returned" /\ call = "generate_response"

\* C18 as stated (for a prompt that is not blank): generate_response calls
\* the model at most RetryCount (3)
\* times, waits 2^i after a failed attempt i that is not the last and then
\* makes attempt i+1, returns at the first successful attempt, and reports
\* failure (None) only after all attempts have failed.
C18_AsClaimed ==
    (ResponseReturned /\ ~PromptIsBlank(TheValue(llm_prompt))) =>
       /\ FollowsRetryPolicy("generate_content", RetryCount)
       /\ IsNone(result) <=>
             Cardinality(RaisedCalls("generate_content")) = RetryCount

\* C18 as amended: for a prompt that is not blank, generate_response calls
\* the model at most RetryCount (3) times; after an attempt i that raised and
\* is not the last it waits 2^i and makes attempt i+1; it returns at the first
\* attempt that does not raise, without further calls: the trimmed response
\* text, or None at once when the response text is empty; when all attempts
\* raised it returns None. For a blank prompt it returns None without a call.
\* Failure is a returned value, never an exception.
C18_RetriesOnException ==
    ResponseReturned =>
       IF PromptIsBlank(TheValue(llm_prompt))
       THEN IsNone(result) /\ log = << >>
       ELSE /\ log # << >>
            /\ FollowsRetryPolicy("generate_content", RetryCount)
            /\ IF Last(log).raised
               THEN /\ Cardinality(RaisedCalls("generate_content")) = RetryCount
                    /\ IsNone(result)
               ELSE result = (IF Last(log).text = << >> THEN None
                              ELSE Some(Strip(Last(log).text)))

\* generate_response has returned a text at the third attempt, after two
\* attempts that raised
C18_Witness ==
    /\ ResponseReturned
    /\ Len(log) = 5
    /\ Cardinality(RaisedCalls("generate_content")) = 2
    /\ result = Some(<< "a" >>)

RagReturned == pc = "returned" /\ call = "generate_rag_response"

\* C19: generate_rag_response with an empty context returns the fixed
\* fallback string and calls no model; with a non-empty context it numbers
\* the chunks 1, 2, ... in input order in the prompt and calls the model
\* through generate_response.
C19_EmptyContextFallsBack ==
    RagReturned =>
       IF rag_context = << >>
       THEN result = Some(Fallback) /\ log = << >> /\ IsNone(llm_prompt)
       ELSE LET prompt == TheValue(llm_prompt)
            IN  /\ Len(prompt.context_text) = Len(rag_context)
                /\ \A i \in 1..Len(rag_context) :
                      /\ prompt.context_text[i].number = i
                      /\ prompt.context_text[i].chunk = rag_context[i]
                /\ prompt.question = query
                /\ Calls("generate_content") # {}
                /\ FollowsRetryPolicy("generate_content", RetryCount)
                /\ IsNone(result) \/ ~Last(log).raised

\* generate_rag_response has returned the fallback for an empty context
C19_Witness ==
    /\ RagReturned
    /\ rag_context = << >>
    /\ query = << "a" >>
    /\ result = Some(Fallback)

----------------------------------------------------------------------------
(* The stream consumer's contract *)

\* the tokens of the data lines of a stream, up to the end marker
RECURSIVE EventsBeforeDone(_)
EventsBeforeDone(stream) ==
    IF stream = << >> THEN << >>
    ELSE LET line == Head(stream)
             token == SubSeq(line, Len(DataPrefix) + 1, Len(line))
         IN  IF ~StartsWith(line, DataPrefix) THEN EventsBeforeDone(Tail(stream))
             ELSE IF token = DoneMarker THEN << >>
             ELSE << token >> \o EventsBeforeDone(Tail(stream))

\* the token events among them: all but the metadata event, which is the
\* last event before the end marker when it has the metadata envelope's look
TokenEvents(stream) ==
    LET events == EventsBeforeDone(stream)
    IN  IF events # << >> /\ StartsWith(Last(events), << "{" >>)
                          /\ Contains(Last(events), SourcesKey)
        THEN SubSeq(events, 1, Len(events) - 1)
        ELSE events

\* C20: the stream consumer yields as content every token event it receives
\* before the end marker, a token with the look of the metadata envelope
\* included; it never yields the end marker and yields nothing received
\* after it.
C20_AsClaimed ==
    fe_pc = "done" =>
       /\ yielded = TokenEvents(lines)
       /\ \A i \in 1..Len(yielded) : yielded[i] # DoneMarker

\* the facade call that returned last
Called(op) == st_call.op = op

NonDecreasing(ds) == \A i \in 1..(Len(ds) - 1) : ds[i] <= ds[i + 1]

\* C21: for every index content and every top_k >= 1, search returns at most
\* top_k matches, ordered by non-decreasing distance, and its documents,
\* metadatas and distances all have the length count.
C21_SearchBounded ==
    (Called("search") /\ st_call.top_k >= 1) =>
       LET r == st_call.ret
       IN  /\ r.count <= st_call.top_k
           /\ NonDecreasing(r.distances)
           /\ Len(r.documents) = r.count
           /\ Len(r.metadatas) = r.count
           /\ Len(r.distances) = r.count

\* a search for two of three records; the nearest is not the first stored
C21_Witness ==
    /\ Called("search")
    /\ st_call.top_k = 2
    /\ Len(st_call.before) = 3
    /\ st_call.ret.count = 2
    /\ st_call.ret.distances[1] < st_call.ret.distances[2]
    /\ st_call.ret.documents[1] # st_call.before[1].document

\* the store raised in the facade call that returned last
StoreRaised == st_call.op # "none" /\ st_call.raised

Appended == SubSeq(collection, Len(st_call.before) + 1, Len(collection))

\* C23: add_documents returns false and leaves the index unchanged whenever
\* the number of chunks differs from the number of embeddings, either
\* sequence is empty, or an embedding of the sequence is missing (None); it
\* returns true only when every given chunk has been stored with its own
\* embedding.
C23_AddAllOrNothing ==
    Called("add_documents") =>
       LET cs == st_call.chunks
           embs == st_call.embeddings
       IN  /\ ( \/ Len(cs) # Len(embs)
                \/ cs = << >>
                \/ embs = << >>
                \/ \E i \in DOMAIN embs : IsNone(embs[i]) )
                 => st_call.ret = FALSE /\ collection = st_call.before
           /\ st_call.ret = TRUE
                 => /\ collection = st_call.before \o Appended
                    /\ Len(Appended) = Len(cs)
                    /\ \A i \in DOMAIN cs :
                          /\ Appended[i].document = cs[i].text
                          /\ Appended[i].embedding = TheValue(embs[i])

\* two chunks were given with the embedding of one of them missing, on an
\* index that holds records
C23_Witness ==
    /\ Called("add_documents")
    /\ Len(st_call.chunks) = 2
    /\ Len(st_call.embeddings) = 2
    /\ IsNone(st_call.embeddings[2])
    /\ ~IsNone(st_call.embeddings[1])
    /\ st_call.before # << >>
    /\ st_call.ret = FALSE

DistinctIds(coll) ==
    \A i, j \in DOMAIN coll : i # j => coll[i].id # coll[j].id

\* C24: after any sequence of add_documents, delete_by_source and reset
\* calls the ids of the stored records are pairwise distinct; a successful
\* add of n chunks makes the number of records n higher, also when the same
\* chunks were added before, and leaves every record stored before as it
\* was.
C24_AddsNeverCollide ==
    /\ DistinctIds(collection)
    /\ (Called("add_documents") /\ st_call.ret = TRUE) =>
          /\ Len(collection) = Len(st_call.before) + Len(st_call.chunks)
          /\ SubSeq(collection, 1, Len(st_call.before)) = st_call.before

\* a chunk is added that the index holds already, from the same source
C24_Witness ==
    /\ Called("add_documents")
    /\ st_call.ret = TRUE
    /\ \E i \in DOMAIN st_call.before :
          /\ st_call.before[i].document = st_call.chunks[1].text
          /\ st_call.before[i].metadata.source_file
                = GetOr(st_call.chunks[1], "source_file", "unknown")
          /\ st_call.before[i].metadata.chunk_index
                = GetOr(st_call.chunks[1], "chunk_index", 0)
    /\ Len(collection) = Len(st_call.before) + Len(st_call.chunks)

\* the source s is in the list list_sources gives of coll
Lists(coll, s) ==
    \E i \in DOMAIN list_sources(coll, FALSE, stale) :
        list_sources(coll, FALSE, stale)[i] = s

\* C25: delete_by_source(s): when at least one stored record has
\* metadata.source_file exactly equal to s (case-sensitive), it returns
\* true, removes every such record and leaves every other record unchanged,
\* so that afterwards list_sources does not contain s; when no record
\* matches, it returns false and leaves the index unchanged.
C25_AsClaimed ==
    Called("delete_by_source") =>
       LET s == st_call.source_file
       IN  IF OfSource(st_call.before, s) # << >>
           THEN /\ st_call.ret = TRUE
                /\ collection = NotOfSource(st_call.before, s)
                /\ ~Lists(collection, s)
           ELSE /\ st_call.ret = FALSE
                /\ collection = st_call.before

\* C25, amended: delete_by_source(s), while the store answers its calls:
\* when at least one stored record has metadata.source_file exactly equal to
\* s (case-sensitive), it returns true, removes every such record and leaves
\* every other record unchanged, so that afterwards list_sources does not
\* contain s; when no record matches, and also when the store raises, it
\* returns false and leaves the index unchanged.
C25_DeletesExactlyTheSource ==
    Called("delete_by_source") =>
       LET s == st_call.source_file
       IN  IF OfSource(st_call.before, s) # << >> /\ ~st_call.raised
           THEN /\ st_call.ret = TRUE
                /\ collection = NotOfSource(st_call.before, s)
                /\ ~Lists(collection, s)
           ELSE /\ st_call.ret = FALSE
                /\ collection = st_call.before

\* both records of a.txt were deleted and the record of A.txt is kept
C25_Witness ==
    /\ Called("delete_by_source")
    /\ st_call.source_file = "a.txt"
    /\ st_call.ret = TRUE
    /\ Len(OfSource(st_call.before, "a.txt")) = 2
    /\ Len(collection) = 1
    /\ collection[1].metadata.source_file = "A.txt"

\* the lists of chunks add_documents stores when it is given their embeddings
Storable == { cs \in ChunkLists : cs # << >> /\ ~LacksText(cs) }

\* the index is empty to its readers and takes a later add and search
EmptyAndUsable ==
    /\ collection = << >>
    /\ get_stats(collection, 0, stale).total_chunks = 0
    /\ get_stats(collection, 0, stale).sources = << >>
    /\ \A c \in SearchCalls : search(collection, c[1], c[2], stale).count = 0
    /\ \A cs \in Storable :
          LET r == add_documents(collection, cs, OwnEmbeddings(cs), next_id,
                                 FALSE, stale)
          IN  /\ r.ret = TRUE
              /\ search(r.coll, 0, 1, stale).count = 1

\* a further reset returns true and leaves the state as it is
SecondResetChangesNothing ==
    reset(collection, 0, stale)
        = [ret |-> TRUE, coll |-> collection, stale |-> stale]

\* C26: after reset returns true the index holds no record (get_stats
\* reports total_chunks = 0 and no sources, search returns no match) and the
\* facade remains usable for later add and search calls; reset on an already
\* empty index returns true, and calling reset twice leaves the same state
\* as calling it once.
C26_AsClaimed ==
    Called("reset") =>
       /\ st_call.ret = TRUE => EmptyAndUsable /\ SecondResetChangesNothing
       /\ st_call.before = << >> => st_call.ret = TRUE

\* C26, amended: after reset returns true the index holds no record
\* (get_stats reports total_chunks = 0 and no sources, search returns no
\* match) and the facade remains usable for later add and search calls;
\* reset on an already empty index returns true while the client answers
\* its calls and false when the client raises, and calling reset twice
\* leaves the same state as calling it once.
C26_ResetEmpties ==
    Called("reset") =>
       /\ st_call.ret = TRUE => EmptyAndUsable /\ SecondResetChangesNothing
       /\ st_call.before = << >> => st_call.ret = ~st_call.raised

\* an index that was filled and emptied before is reset
C26_Witness ==
    /\ Called("reset")
    /\ st_call.ret = TRUE
    /\ st_call.before = << >>
    /\ next_id > Len(Pool) + 1

\* the end of the window the walk takes at start
EndAt(st) == WindowEnd(st, chunk_size, Len(sp_text))

\* the number of positions the window at st shares with the window at next
SharedWith(st, next) ==
    Cardinality({ i \in st..(EndAt(st) - 1) : i >= next /\ i < EndAt(next) })

\* C27: in the window walk over a text longer than chunk_size, with
\* chunk_overlap < chunk_size, each next window starts at the end of the
\* window before it minus chunk_overlap, so the start grows by
\* chunk_size - chunk_overlap at every step and consecutive windows share
\* exactly chunk_overlap characters; the guard against a start that does not
\* advance never changes start; the walk stops at the first window whose end
\* reaches the length of the text, and that window holds a character the
\* window before it does not cover.
C27_AsClaimed ==
    [][(sp_pc = "walk" /\ sp_pc' # "done") =>
          /\ start < Len(sp_text)
          /\ start' = EndAt(start) - chunk_overlap
          /\ sp_pc' = "walk" =>
                /\ EndAt(start) < Len(sp_text)
                /\ start' - start = chunk_size - chunk_overlap
                /\ start' > start
                /\ SharedWith(start, start') = chunk_overlap
          /\ sp_pc' = "wrap" =>
                /\ EndAt(start) >= Len(sp_text)
                /\ windows # << >> => Len(sp_text) > start + chunk_overlap]_vars

\* the upload that returned last has answered with an UploadResponse
Uploaded == Called("upload_document") /\ st_call.status_code = 200

\* the text extraction of the upload that returned last has failed
ExtractionFailed == IsNone(st_call.extracted) \/ st_call.extracted = Some(<< >>)

\* the chunks the server's splitter makes of the extracted text
UploadedChunks ==
    IF ExtractionFailed THEN << >>
    ELSE split_text(TheValue(st_call.extracted), st_call.filename, None,
                    chunk_size, chunk_overlap)

\* the positions of the chunks whose embedding succeeded, in their order
EmbeddedPositions ==
    SelectSeq([i \in DOMAIN st_call.embeddings |-> i],
              LAMBDA i : ~IsNone(st_call.embeddings[i]))

\* C28: in the upload flow the records added to the index are exactly the
\* chunks whose embedding succeeded, in their original order, each stored
\* with its own embedding; chunks_created is the number of records added;
\* and when the text extraction, the chunking, every embedding or the add to
\* the index fails, the response has success = false and the index is left
\* unchanged.
C28_UploadStoresEmbedded ==
    Uploaded =>
       LET kept == EmbeddedPositions
           failed == \/ ExtractionFailed
                     \/ UploadedChunks = << >>
                     \/ kept = << >>
                     \/ st_call.add_fails
       IN  /\ st_call.response.success = ~failed
           /\ st_call.response.chunks_created = Len(Appended)
           /\ collection = st_call.before \o Appended
           /\ failed => collection = st_call.before
           /\ ~failed =>
                 /\ Len(Appended) = Len(kept)
                 /\ \A j \in DOMAIN kept :
                       /\ Appended[j].document = UploadedChunks[kept[j]].text
                       /\ Appended[j].metadata.chunk_index = kept[j] - 1
                       /\ Appended[j].embedding
                             = TheValue(st_call.embeddings[kept[j]])
                       /\ Appended[j].embedding
                             = EmbeddingOf(UploadedChunks[kept[j]].text)

\* of three chunks the second was not embedded; the first and the third are
\* stored, with embeddings that differ, after the records of an upload
\* before
C28_Witness ==
    /\ Uploaded
    /\ st_call.response.success
    /\ st_call.before # << >>
    /\ Len(UploadedChunks) = 3
    /\ IsNone(st_call.embeddings[2])
    /\ Len(Appended) = 2
    /\ Appended[1].embedding # Appended[2].embedding

\* the generation gateway was called in the running call
GenerationCalled == \E i \in DOMAIN log : log[i].op = "generate_content"

\* what every result has, whatever top_k is
ResultCountsAgree ==
    /\ result.chunks_used = Len(result.sources)
    /\ result.chunks_used = Len(rag_context)
    /\ rag_context # << >> =>
          /\ GenerationCalled
          /\ rag_context = search_results.documents
          /\ \A i \in DOMAIN rag_context :
                result.sources[i].chunk_text = Preview(rag_context[i])
    /\ result.chunks_used = 0 <=> result.sources = << >>

\* C29: in every result returned by retrieve_and_generate, chunks_used is
\* the number of entries of sources, which is the number of context chunks
\* passed to the generation gateway (the whole texts of the matches, in the
\* order of sources) and never exceeds the resolved top_k; chunks_used is 0
\* exactly when sources is empty.
C29_AsClaimed ==
    Returned =>
       /\ ResultCountsAgree
       /\ ~IsBlank(query) => result.chunks_used <= top_k

\* C29, amended: as C29, but chunks_used never exceeds the resolved top_k
\* only when that is at least 1; a call with a resolved top_k below 1 returns
\* a result without sources, with chunks_used = 0.
C29_CountsAgree ==
    Returned =>
       /\ ResultCountsAgree
       /\ top_k >= 1 => result.chunks_used <= top_k
       /\ top_k < 1 => result.chunks_used = 0 /\ result.sources = << >>

\* two matches were used, one of them longer than its preview in sources
C29_Witness ==
    /\ Returned
    /\ top_k = 2
    /\ result.chunks_used = 2
    /\ Len(rag_context) = 2
    /\ \E i \in DOMAIN rag_context : Len(rag_context[i]) > PreviewLen

\* the place of a source name in the order of sorted()
SourceRank(s) == CHOOSE i \in DOMAIN SourceFiles : SourceFiles[i] = s

\* srcs is sorted and has no name twice
StrictlySorted(srcs) ==
    \A i \in 1..(Len(srcs) - 1) : SourceRank(srcs[i]) < SourceRank(srcs[i + 1])

\* get_stats has returned and the store has raised in neither of its calls
StatsReturned == Called("get_stats") /\ ~st_call.raised

\* C30: get_stats returns a consistent snapshot of the index, also when
\* add_documents, delete_by_source or reset calls of other requests
\* interleave with it: total_sources is the number of entries of sources,
\* sources is sorted and free of duplicates, total_sources <= total_chunks,
\* and total_chunks = 0 exactly when sources is empty.
C30_AsClaimed ==
    Called("get_stats") =>
       LET r == st_call.ret
       IN  /\ {"total_chunks", "total_sources", "sources"} \subseteq DOMAIN r
           /\ r.total_sources = Len(r.sources)
           /\ StrictlySorted(r.sources)
           /\ r.total_sources <= r.total_chunks
           /\ r.total_chunks = 0 <=> r.sources = << >>

\* C30, amended: get_stats returns the empty dictionary when the count
\* raises; in every other result total_sources is the number of entries of
\* sources and sources is sorted and free of duplicates; total_sources <=
\* total_chunks, and total_chunks = 0 exactly when sources is empty, hold
\* when the listing does not raise and the index has as many records at the
\* listing as were counted, and need not hold when a write of another
\* request ran between the count and the listing.
C30_ConsistentWhenUndisturbed ==
    Called("get_stats") =>
       LET r == st_call.ret
       IN  \/ st_call.raised /\ r = NoStats
           \/ /\ r.total_sources = Len(r.sources)
              /\ StrictlySorted(r.sources)
              /\ (~st_call.raised /\ r.total_chunks = Len(st_call.before)) =>
                    /\ r.total_sources <= r.total_chunks
                    /\ r.total_chunks = 0 <=> r.sources = << >>

\* get_stats has returned the count and the two sources of an index of
\* three records
C30_Witness ==
    /\ StatsReturned
    /\ Len(st_call.before) = 3
    /\ st_call.ret.total_chunks = 3
    /\ st_call.ret.total_sources = 2

\* get_stats has returned a count above zero with no source, of an index
\* that was emptied between its count and its listing
DisturbedStats ==
    /\ StatsReturned
    /\ st_call.before = << >>
    /\ st_call.ret.total_chunks > 0
    /\ st_call.ret.sources = << >>

====
